---- MODULE Spec2Model ----
(***************************************************************************)
(* Voice-platform gateway: the Pipeline Orchestrator (process_text), the   *)
(* Session Manager over the Redis TTL store, and the Policy Planner.       *)
(*                                                                         *)
(* Every coroutine is cut at its I/O completions: one action is the code   *)
(* that runs from the completion of one awaited store / capability call to *)
(* the issue of the next one (asyncio never preempts in between).          *)
(***************************************************************************)
EXTENDS Integers, Sequences, FiniteSets, TLC

\* ---------------------------------------------------------------- bounds
MaxTurns == 2            \* process_text turns started in one behaviour
MaxAppends == 3          \* add_message calls started in one SpecSession behaviour
RateLimitPerMinute == 1  \* PolicyPlanner(rate_limit_per_minute=...), configured small
MaxCalls == 4            \* validate_plan calls in one SpecPolicy behaviour
MaxFaults == 1           \* failing Redis / Postgres operations in one behaviour
MaxAdapterCalls == 3     \* DataAdapter calls in one SpecAdapter behaviour
MaxConfigOps == 3        \* file writes and ConfigManager calls in one SpecConfig behaviour
MaxBatch == 3            \* requests in one batch_call
MaxSessionOps == 4       \* Session Manager calls and idle periods in one SpecLifecycle behaviour

\* ------------------------------------------------------ program constants
MaxHistory == 50         \* "Keep last 50 messages"
HistoryLimit == 10       \* get_history(session_id, limit=10)
MaxAttempts == 3         \* stop_after_attempt(3)
DefaultTtl == 3600       \* SessionManager(default_ttl=3600), seconds

Tasks == {1, 2}          \* concurrently running coroutines
Tenants == {"t1", "t2"}
UnknownSid == 0          \* a session id the caller supplies that has no record
None == <<>>             \* Python None / Optional: <<>> or <<value>>
Some(x) == <<x>>

VARIABLES
    store,           \* Redis: session_id -> session record (absent key = no record)
    nextSid,         \* number of uuid4 session ids drawn so far
    am,              \* per task: the running SessionManager call (add_message, ...)
    appends,         \* SpecSession: add_message calls started
    request_counts,  \* PolicyPlanner.request_counts: tenant -> count
    rl,              \* per tenant: outcomes of the rate-limit check, in call order
    pol,             \* SpecPolicy: the last validate_plan call and its result
    rq,              \* per task: the locals of its process_text turn
    turns,           \* process_text turns started
    durable,         \* Postgres messages table (rows saved by save_message)
    faults,          \* store operations that have failed so far
    events,          \* Postgres analytics table (rows inserted by log_event)
    ad,              \* the running DataAdapter call and the results of earlier ones
    gh,              \* SpecSession: the last get_history call and what it returned
    gw,              \* API Gateway: the last authenticated-route request and its answer
    vo,              \* the running voice request (route and process_voice)
    cfgdir,          \* the definition directory: <<stem, suffix>> -> file content
    configs,         \* ConfigManager.configs: key -> DomainConfig
    cf,              \* SpecConfig: the last Config Store operation and its result
    bt,              \* the running batch_call: its requests, tasks and results
    hc,              \* the health of the capabilities and the last health report
    deleted,         \* the sessions for which delete_session has returned true
    ss               \* session bookkeeping: TTLs, add_message results, the last call

vars == <<store, nextSid, am, appends, request_counts, rl, pol, rq, turns, durable, faults,
          events, ad, gh, gw, vo, cfgdir, configs, cf, bt, hc, deleted, ss>>

\* the Config Store
conf == <<cfgdir, configs, cf>>

\* the components that are driven apart from the pipeline
side == <<conf, bt, hc, deleted, ss>>

\* the state of the pipeline and of its stores
pipeline == <<store, nextSid, am, appends, request_counts, rl, pol, rq, turns, durable, faults,
              events>>

\* the HTTP front: gateway and voice route
web == <<gw, vo>>

\* the components a process_text turn, a session call or a policy check never touches
ext == <<ad, gh, web, side>>

\* ------------------------------------------------------------ small helpers
Last(s) == s[Len(s)]

\* history[-n:] for n > 0
LastN(s, n) == IF Len(s) <= n THEN s ELSE SubSeq(s, Len(s) - n + 1, Len(s))

\* history[:n]
FirstN(s, n) == IF Len(s) <= n THEN s ELSE SubSeq(s, 1, n)

Count(s, x) == Cardinality({i \in 1..Len(s) : s[i] = x})

Range(s) == {s[i] : i \in 1..Len(s)}

Has(s, x) == \E i \in 1..Len(s) : s[i] = x

\* dict assignment d[key] = value
Put(f, key, value) == [k \in DOMAIN f \cup {key} |-> IF k = key THEN value ELSE f[k]]

\* del d[key]
Drop(f, key) == [k \in DOMAIN f \ {key} |-> f[k]]

\* ------------------------------------------------------------ Redis client
\* the outcomes an awaited store operation can still have: it succeeds, or (while
\* the budget of failures lasts) the client catches an exception
Outcomes == IF faults < MaxFaults THEN BOOLEAN ELSE {TRUE}

Failed(ok) == faults' = IF ok THEN faults ELSE faults + 1

\* RedisClient.get: the value, or None when the key is absent or the GET fails
redis_get(sid, ok) == IF ok /\ sid \in DOMAIN store THEN Some(store[sid]) ELSE None

\* RedisClient.set: the store after SET; a failed SET leaves it as it was
redis_set_if_absent(sid, rec, ok) ==
    IF ok /\ sid \notin DOMAIN store
    THEN [s \in (DOMAIN store) \cup {sid} |-> IF s = sid THEN rec ELSE store[s]]
    ELSE store

redis_set(sid, rec, ok) ==
    IF ok THEN [s \in (DOMAIN store) \cup {sid} |-> IF s = sid THEN rec ELSE store[s]]
    ELSE store

\* RedisClient.delete lines 146-165: the store after DEL; true unless DEL raised
redis_delete(sid, ok) ==
    [ret |-> ok,
     store |-> IF ok THEN [s \in (DOMAIN store) \ {sid} |-> store[s]] ELSE store]

\* the values of REDIS_SESSION_TTL a deployment runs with (main.py line 87): the
\* default, which is also the Session Manager's, and a longer one
RedisTtls == {DefaultTtl, 2 * DefaultTtl}

\* RedisClient.set line 99: `ttl = ttl or self.default_ttl`
EffectiveTtl(ttl, redis_default_ttl) ==
    IF ttl # None /\ ttl[1] # 0 THEN ttl[1] ELSE redis_default_ttl

\* RedisClient.set line 101: SET key value EX ttl
set_ex(s, sid, ttl, ok) ==
    IF ok THEN [s EXCEPT !.remaining = Put(@, sid, EffectiveTtl(ttl, s.redis_ttl))] ELSE s

NoSessionCall == [n |-> 0, op |-> "none", sid |-> UnknownSid, existed |-> FALSE, ret |-> FALSE]

\* no key yet; the client is built with redis_default_ttl
NoSessions(redis_default_ttl) ==
    [redis_ttl |-> redis_default_ttl, remaining |-> <<>>, acks |-> <<>>,
     last |-> NoSessionCall]

\* the {} that RedisClient.update_session starts from when the record is gone
EmptyRecord == [tenant_id |-> "absent", history |-> <<>>, message_count |-> 0]

\* ---------------------------------------------------------- Session Manager
Message(role, content, intent, entities) ==
    [role |-> role, content |-> content, intent |-> intent, entities |-> entities]

NewSessionWithMessage(tenant) ==
    [tenant_id |-> tenant, history |-> <<[role |-> "system", content |-> "created"]>>,
     message_count |-> 1]

NewSession(tenant) == [tenant_id |-> tenant, history |-> <<>>, message_count |-> 0]

\* add_message lines 169-174: append, then keep the last 50
TruncateFirst(history) == FirstN(history, MaxHistory)

Truncate(history) == LastN(history, MaxHistory)

AppendAfterTruncate(history, msg) == Append(Truncate(history), msg)

AppendHistory(history, msg) == Truncate(Append(history, msg))

\* get_history lines 208-213: `if limit:` skips the slice for limit = 0
get_history(session, limit) ==
    IF session = None THEN <<>>
    ELSE IF limit # 0 THEN LastN(session[1].history, limit) ELSE session[1].history

NoCall == [pc |-> "none", sid |-> UnknownSid, msg |-> None, history |-> <<>>,
           count |-> 0, merged |-> None, saved |-> FALSE, ret |-> FALSE]

\* the call frame right after add_message issued its first GET
CallAddMessage(sid, msg) == [NoCall EXCEPT !.pc = "get", !.sid = sid, !.msg = Some(msg)]

\* add_message lines 156-179, from the completion of get_session's GET to the
\* issue of update_session's GET
AddMessageGet(t) ==
    /\ am[t].pc = "get"
    /\ \E ok \in Outcomes :
         LET session == redis_get(am[t].sid, ok) IN
         /\ Failed(ok)
         /\ am' = [am EXCEPT ![t] =
                  IF session = None
                  THEN [@ EXCEPT !.pc = "ret", !.ret = FALSE]
                  ELSE [@ EXCEPT !.pc = "upd_get",
                                 !.history = AppendHistory(session[1].history, am[t].msg[1]),
                                 !.count = session[1].message_count + 1]]
    /\ UNCHANGED <<store, nextSid, appends, request_counts, rl, pol, rq, turns, durable, events, ext>>

\* RedisClient.update_session lines 213-218: re-read, overlay the updates
AddMessageUpdate(t) ==
    /\ am[t].pc = "upd_get"
    /\ \E ok \in Outcomes :
         LET session == redis_get(am[t].sid, ok)
             base == IF session = None THEN EmptyRecord ELSE session[1]
         IN /\ Failed(ok)
            /\ am' = [am EXCEPT ![t].pc = "upd_set",
                                ![t].merged = Some([base EXCEPT !.history = am[t].history,
                                                                !.message_count = am[t].count])]
    /\ UNCHANGED <<store, nextSid, appends, request_counts, rl, pol, rq, turns, durable, events, ext>>

\* what add_message returns once update_session has come back (line 182)
AddMessageResult(saved) == TRUE

\* RedisClient.set completes; add_message drops update_session's result
AddMessageSet(t) ==
    /\ am[t].pc = "upd_set"
    /\ \E ok \in Outcomes :
         /\ Failed(ok)
         /\ store' = redis_set(am[t].sid, am[t].merged[1], ok)
         /\ am' = [am EXCEPT ![t].pc = "ret", ![t].saved = ok,
                                ![t].ret = AddMessageResult(ok)]
         /\ ss' = [set_ex(ss, am[t].sid, None, ok) EXCEPT
                     !.acks = IF AddMessageResult(ok)
                              THEN Put(@, am[t].sid,
                                       1 + IF am[t].sid \in DOMAIN @ THEN @[am[t].sid] ELSE 0)
                              ELSE @]
    /\ UNCHANGED <<nextSid, appends, request_counts, rl, pol, rq, turns, durable, events,
                   ad, gh, web, conf, bt, hc, deleted>>

AddMessageStep(t) == AddMessageGet(t) \/ AddMessageUpdate(t) \/ AddMessageSet(t)

\* ----------------------------------------------------------- Policy Planner
Violation(type, text, arg, severity) ==
    [type |-> type, message |-> [text |-> text, arg |-> arg], severity |-> severity]

\* dict.get(key) on an action dict: None (falsy) when the key is absent
ActionGet(action, key) == key \in action.keys /\ action[key]

\* _check_rate_limits: <<violations, request_counts afterwards>>
check_rate_limits_off_by_one(counts, tenant) ==
    IF counts[tenant] > RateLimitPerMinute
    THEN <<(<<Violation("rate_limit", "Rate limit exceeded", "", "error")>>), counts>>
    ELSE <<(<<>>), [counts EXCEPT ![tenant] = @ + 1]>>

check_rate_limits_new_window(counts, tenant) ==
    IF counts[tenant] >= RateLimitPerMinute
    THEN <<(<<Violation("rate_limit", "Rate limit exceeded", "", "error")>>),
           [counts EXCEPT ![tenant] = 0]>>
    ELSE <<(<<>>), [counts EXCEPT ![tenant] = @ + 1]>>

check_rate_limits(counts, tenant) ==
    IF counts[tenant] >= RateLimitPerMinute
    THEN <<(<<Violation("rate_limit", "Rate limit exceeded", "", "error")>>), counts>>
    ELSE <<(<<>>), [counts EXCEPT ![tenant] = @ + 1]>>

\* _check_authorization: one violation per action whose dict says requires_auth
RECURSIVE auth_violations(_, _)
auth_violations(actions, context) ==
    IF actions = <<>> THEN <<>>
    ELSE (IF ActionGet(Head(actions), "requires_auth") /\ ~context.auth_token
          THEN <<Violation("unauthorized", "requires authentication",
                           Head(actions).name, "error")>>
          ELSE <<>>) \o auth_violations(Tail(actions), context)

check_authorization(plan, context) == auth_violations(plan.actions, context)

\* _validate_data: a dict is a set of <<key, value>> pairs; entities = None makes
\* .items() raise inside the try, which keeps the violations collected so far
RECURSIVE EntityWarnings(_)
EntityWarnings(entities) ==
    IF entities = {} THEN <<>>
    ELSE LET e == CHOOSE x \in entities : TRUE IN
         (IF e[2] = ""
          THEN <<Violation("data_validation", "Invalid entity value", e[1], "warning")>>
          ELSE <<>>) \o EntityWarnings(entities \ {e})

validate_data(plan) ==
    (IF plan.intent = None
     THEN <<Violation("data_validation", "Missing required field: intent", "", "error")>>
     ELSE <<>>)
    \o (IF plan.entities = None THEN <<>> ELSE EntityWarnings(plan.entities[1]))

\* _check_safety
check_safety(context) ==
    IF ~context.is_safe
    THEN <<Violation("safety", "Content flagged", "", "error")>>
    ELSE <<>>

HasError(violations) == \E i \in 1..Len(violations) : violations[i].severity = "error"

IsValidAnyViolation(violations) == violations = <<>>

IsValid(violations) == ~HasError(violations)

\* validate_plan lines 82-111: [is_valid, violations, counts]
validate_plan(counts, tenant, plan, context) ==
    LET rate == check_rate_limits(counts, tenant)
        violations == rate[1] \o check_authorization(plan, context)
                              \o validate_data(plan) \o check_safety(context)
    IN [is_valid |-> IsValid(violations), violations |-> violations, counts |-> rate[2],
        rate_ok |-> rate[1] = <<>>]

\* ------------------------------------------------------------ Config Manager
\* ConfigManager.configs as loaded at start-up: two domains; any other name
\* ("ghost") has no definition file, so get_config returns None
Domains == {"estate", "support"}

DomainNames == Domains \cup {"ghost"}

ConfiguredIntents(domain) ==
    IF domain = "estate" THEN {"greet", "search", "book"}
    ELSE IF domain = "support" THEN {"greet"}
    ELSE {}

\* context_retrieval.enabled of the domain (False when there is no config)
RetrievalEnabled(domain) == domain = "estate"

\* get_intent_config: the IntentConfig, or None
get_intent_config(domain, intent) ==
    IF intent # None /\ intent[1] \in ConfiguredIntents(domain)
    THEN Some([name |-> intent[1],
               api_endpoint |-> intent[1] \in {"search", "book"},
               requires_auth |-> intent[1] = "book"])
    ELSE None

\* --------------------------------------------------------------- Data Adapter
\* what httpx can do with one request
HttpOutcomes == {"2xx", "2xx_empty", "non_2xx", "timeout", "connect_error", "bad_body"}

ApiResult(success, status_code, error_type) ==
    [success |-> success, status_code |-> status_code, error_type |-> error_type]

\* call_with_config lines 187-193: the result built by its except clause
AdapterError == ApiResult(FALSE, 0, "adapter_error")

\* call_api without its last except clause: what is not an httpx status or
\* timeout error leaves the function as an exception
call_api_body_unguarded(http) ==
    CASE http \in {"2xx", "2xx_empty"} -> [raised |-> FALSE, result |-> ApiResult(TRUE, 200, "none")]
      [] http = "non_2xx" -> [raised |-> FALSE, result |-> ApiResult(FALSE, 503, "http_error")]
      [] http = "timeout" -> [raised |-> FALSE, result |-> ApiResult(FALSE, 408, "timeout")]
      [] OTHER -> [raised |-> TRUE, result |-> ApiResult(FALSE, 500, "unknown")]

\* call_api lines 73-145, one execution of the function body: raise_for_status
\* and response.json() run inside the try, every except clause returns a dict
call_api_body(http) ==
    CASE http \in {"2xx", "2xx_empty"} -> [raised |-> FALSE, result |-> ApiResult(TRUE, 200, "none")]
      [] http = "non_2xx" -> [raised |-> FALSE, result |-> ApiResult(FALSE, 503, "http_error")]
      [] http = "timeout" -> [raised |-> FALSE, result |-> ApiResult(FALSE, 408, "timeout")]
      [] OTHER -> [raised |-> FALSE, result |-> ApiResult(FALSE, 500, "unknown")]

\* lines 44-47, tenacity: the body runs again only when it raised, at most
\* MaxAttempts times
retry_decision(attempt, raised) == raised /\ attempt < MaxAttempts

NoAdapterCall == [pc |-> "idle", entry |-> "call_api", attempts |-> <<>>, result |-> None,
                  raised |-> FALSE, log |-> <<>>]

\* call_api or call_with_config is entered; call_with_config builds the request
\* inside its try (lines 164-183) and answers adapter_error when that fails
AdapterCall ==
    /\ ad.pc \in {"idle", "done"}
    /\ Len(ad.log) < MaxAdapterCalls
    /\ \E entry \in {"call_api", "call_with_config"}, args_ok \in BOOLEAN :
         /\ entry = "call_api" => args_ok
         /\ ad' = IF args_ok
                  THEN [ad EXCEPT !.pc = "attempt", !.entry = entry, !.attempts = <<>>,
                                  !.result = None, !.raised = FALSE]
                  ELSE [ad EXCEPT !.pc = "done", !.entry = entry, !.attempts = <<>>,
                                  !.result = Some(AdapterError), !.raised = FALSE,
                                  !.log = Append(@, AdapterError)]
    /\ UNCHANGED <<store, nextSid, am, appends, request_counts, rl, pol, rq, turns, durable,
                   faults, events, gh, web, side>>

\* one HTTP attempt completes: return, retry, or give up with RetryError
AdapterAttempt ==
    /\ ad.pc = "attempt"
    /\ \E http \in HttpOutcomes :
         LET body == call_api_body(http)
             attempts == Append(ad.attempts, http)
         IN ad' = IF ~body.raised
                  THEN [ad EXCEPT !.pc = "done", !.attempts = attempts,
                                  !.result = Some(body.result),
                                  !.log = Append(@, body.result)]
                  ELSE IF retry_decision(Len(attempts), body.raised)
                  THEN [ad EXCEPT !.attempts = attempts]
                  ELSE IF ad.entry = "call_with_config"
                  THEN [ad EXCEPT !.pc = "done", !.attempts = attempts,
                                  !.result = Some(AdapterError),
                                  !.log = Append(@, AdapterError)]
                  ELSE [ad EXCEPT !.pc = "done", !.attempts = attempts, !.raised = TRUE,
                                  !.log = Append(@, AdapterError)]
    /\ UNCHANGED <<store, nextSid, am, appends, request_counts, rl, pol, rq, turns, durable,
                   faults, events, gh, web, side>>

\* ------------------------------------------------------------------ Analytics
\* postgres.log_event lines 331-351: the INSERT, False instead of an exception
log_event(rows, event_type, turn, ok) ==
    IF ok THEN rows \cup {[event_type |-> event_type, turn |-> turn]} ELSE rows

\* a log_* method without its try/except: a failed store raises to the caller
analytics_propagates(ok) == ~ok

\* AnalyticsService.log_* : whether the call raises to its caller
analytics_raises(ok) == FALSE


\* batch_call lines 195-225.  A request is the keyword arguments of one call
\* together with what its endpoint does; "unexpected_argument" is a request
\* whose keys call_api does not accept: the call raises inside the retry
\* wrapper on every attempt and ends with RetryError
RequestKinds == HttpOutcomes \cup {"unexpected_argument"}

Raises(request) == request = "unexpected_argument"

Exception(request) == [exception |-> "RetryError"]

\* what the awaited call_api(**request) produces when run alone
call_api(request) ==
    IF Raises(request) THEN Exception(request) ELSE call_api_body(request).result

\* asyncio.gather(*tasks, return_exceptions=True), line 214: the outcomes in the
\* order of the tasks, whatever the order of completion
gather_as_completed(outcomes, order) == [k \in 1..Len(order) |-> outcomes[order[k]][1]]

gather(outcomes, order) == [i \in 1..Len(order) |-> outcomes[i][1]]

\* lines 216-220
FailureResult(exception) == [success |-> FALSE, error |-> exception.exception]

BatchResults(responses) ==
    [i \in 1..Len(responses) |->
       IF "exception" \in DOMAIN responses[i] THEN FailureResult(responses[i])
       ELSE responses[i]]

NoBatch == [pc |-> "idle", requests |-> <<>>, outcomes |-> <<>>, order |-> <<>>,
            ret |-> None]

\* lines 209-214: one coroutine per request, all handed to gather
BatchCall ==
    /\ bt.pc = "idle"
    /\ \E n \in 0..MaxBatch : \E requests \in [1..n -> RequestKinds] :
         bt' = [NoBatch EXCEPT !.pc = "gathering", !.requests = requests,
                               !.outcomes = [i \in 1..n |-> None]]
    /\ UNCHANGED <<pipeline, ad, gh, web, conf, hc, deleted, ss>>

\* one of the running calls finishes
BatchTaskDone ==
    /\ bt.pc = "gathering"
    /\ \E i \in 1..Len(bt.requests) :
         /\ bt.outcomes[i] = None
         /\ bt' = [bt EXCEPT !.outcomes[i] = Some(call_api(bt.requests[i])),
                             !.order = Append(@, i)]
    /\ UNCHANGED <<pipeline, ad, gh, web, conf, hc, deleted, ss>>

\* lines 214-220: gather returns once every call has finished
BatchReturn ==
    /\ bt.pc = "gathering"
    /\ \A i \in 1..Len(bt.requests) : bt.outcomes[i] # None
    /\ bt' = [bt EXCEPT !.pc = "returned",
                        !.ret = Some(BatchResults(gather(bt.outcomes, bt.order)))]
    /\ UNCHANGED <<pipeline, ad, gh, web, conf, hc, deleted, ss>>

\* ---------------------------------------------------------------- health check
\* the keys of the eight checks in the report, lines 420-427
Capabilities == {"asr", "tts", "llm", "moderator", "redis", "postgres", "qdrant", "nlu"}

\* lines 430-432: all(v for k, v in health.items() if k != "orchestrator")
overall_any(health) == \E k \in DOMAIN health \ {"orchestrator"} : health[k] = TRUE

overall(health) == \A k \in DOMAIN health \ {"orchestrator"} : health[k] = TRUE

\* orchestrator.health_check lines 416-434; is_available and the stores'
\* health_check return a bool and never raise
health_check(up) ==
    LET health == [k \in Capabilities \cup {"orchestrator"} |->
                     IF k = "orchestrator" THEN "healthy" ELSE up[k]]
    IN [k \in DOMAIN health \cup {"overall"} |->
          IF k = "overall" THEN overall(health) ELSE health[k]]

\* GET /health, api_gateway.py lines 168-185
HealthResponse(up) ==
    LET health == health_check(up) IN
    [status |-> IF health["overall"] THEN "healthy" ELSE "degraded", services |-> health]

\* a capability goes down or comes back
HealthChange ==
    /\ \E c \in Capabilities : hc' = [hc EXCEPT !.up[c] = ~@]
    /\ UNCHANGED <<pipeline, ad, gh, web, conf, bt, deleted, ss>>

HealthQuery ==
    /\ hc' = [hc EXCEPT !.last = Some([seen |-> hc.up, response |-> HealthResponse(hc.up)])]
    /\ UNCHANGED <<pipeline, ad, gh, web, conf, bt, deleted, ss>>

\* --------------------------------------------------------------- Config Store
Stems == {"estate", "support"}

Suffixes == {"json", "yaml", "yml"}

\* the content of a definition file after json.load / yaml.safe_load; parses is
\* false for a file the parser rejects; score_threshold is in tenths
BaseDefinition(domain_name, intents) ==
    [parses |-> TRUE, domain_name |-> Some(domain_name), intents |-> Some(intents),
     enabled |-> TRUE, top_k |-> [is_int |-> TRUE, value |-> 5], score_threshold |-> 5,
     response_templates |-> {<<"greet", "Hello">>}]

EstateDefinition == BaseDefinition("estate", <<"greet", "book">>)

SupportDefinition == [BaseDefinition("support", <<"greet">>) EXCEPT !.top_k.value = 3]

Definitions ==
    { EstateDefinition, SupportDefinition,
      [EstateDefinition EXCEPT !.parses = FALSE],
      [EstateDefinition EXCEPT !.domain_name = None],
      [EstateDefinition EXCEPT !.intents = None],
      [EstateDefinition EXCEPT !.intents = Some(<<>>)],
      [EstateDefinition EXCEPT !.intents = Some(<<"greet", "greet">>)],
      [EstateDefinition EXCEPT !.top_k.value = 0],
      [EstateDefinition EXCEPT !.top_k.is_int = FALSE],
      [EstateDefinition EXCEPT !.score_threshold = 15] }

\* scripts/validate_domain.py: the errors the validation script reports
validate_domain_config(definition) ==
    IF ~definition.parses THEN {"Invalid JSON"}
    ELSE (IF definition.domain_name = None THEN {"Missing required field: domain_name"}
          ELSE {})
         \cup (IF definition.intents = None THEN {"Missing required field: intents"}
               ELSE IF Len(definition.intents[1]) = 0 THEN {"At least one intent is required"}
               ELSE IF Cardinality(Range(definition.intents[1])) < Len(definition.intents[1])
               THEN {"Duplicate intent name"}
               ELSE {})
         \cup (IF /\ definition.enabled
                  /\ (~definition.top_k.is_int \/ definition.top_k.value < 1)
               THEN {"top_k must be a positive integer"}
               ELSE {})
         \cup (IF /\ definition.enabled
                  /\ ~(0 <= definition.score_threshold /\ definition.score_threshold <= 10)
               THEN {"score_threshold must be between 0 and 1"}
               ELSE {})

\* lines 17-46 and 106: DomainConfig(**config_data); pydantic checks presence
\* and types only
DomainConfig(definition) ==
    IF /\ definition.parses
       /\ definition.domain_name # None
       /\ definition.intents # None
       /\ definition.top_k.is_int
    THEN Some([domain_name |-> definition.domain_name[1],
               intents |-> definition.intents[1],
               context_retrieval |-> [enabled |-> definition.enabled,
                                      top_k |-> definition.top_k.value,
                                      score_threshold |-> definition.score_threshold],
               response_templates |-> definition.response_templates])
    ELSE None

\* lines 264-272: model_dump and json.dump / yaml.dump
Dump(config) ==
    [parses |-> TRUE, domain_name |-> Some(config.domain_name),
     intents |-> Some(config.intents),
     enabled |-> config.context_retrieval.enabled,
     top_k |-> [is_int |-> TRUE, value |-> config.context_retrieval.top_k],
     score_threshold |-> config.context_retrieval.score_threshold,
     response_templates |-> config.response_templates]

\* lines 79-92: the file load_config reads when no path is given
DetectFile(dir, domain_name) ==
    IF <<domain_name, "json">> \in DOMAIN dir THEN Some(<<domain_name, "json">>)
    ELSE IF <<domain_name, "yaml">> \in DOMAIN dir THEN Some(<<domain_name, "yaml">>)
    ELSE None

\* load_config lines 67-120: [ret, configs, read]
load_config(loaded, dir, domain_name, file_path) ==
    LET path == IF file_path = None THEN DetectFile(dir, domain_name) ELSE file_path IN
    IF path = None \/ path[1] \notin DOMAIN dir
    THEN [ret |-> FALSE, configs |-> loaded, read |-> None]
    ELSE LET config == DomainConfig(dir[path[1]]) IN
         IF config = None
         THEN [ret |-> FALSE, configs |-> loaded, read |-> Some(dir[path[1]])]
         ELSE [ret |-> TRUE, configs |-> Put(loaded, domain_name, config[1]),
               read |-> Some(dir[path[1]])]

\* load_all_configs lines 122-151: every *.json, then every *.yaml whose stem is
\* not a key yet: [ret, configs]
load_all_configs(loaded, dir) ==
    LET from_json == {s \in Stems : load_config(loaded, dir, s, Some(<<s, "json">>)).ret}
        after_json == [k \in DOMAIN loaded \cup from_json |->
                         IF k \in from_json THEN DomainConfig(dir[<<k, "json">>])[1]
                         ELSE loaded[k]]
        from_yaml == {s \in Stems : /\ s \notin DOMAIN after_json
                                    /\ load_config(loaded, dir, s, Some(<<s, "yaml">>)).ret}
    IN [ret |-> Cardinality(from_json) + Cardinality(from_yaml),
        configs |-> [k \in DOMAIN after_json \cup from_yaml |->
                       IF k \in from_yaml THEN DomainConfig(dir[<<k, "yaml">>])[1]
                       ELSE after_json[k]]]

\* get_config lines 153-171: the loaded configuration, loading it on a miss
get_config(loaded, dir, domain_name) ==
    IF domain_name \in DOMAIN loaded
    THEN [ret |-> Some(loaded[domain_name]), configs |-> loaded]
    ELSE LET l == load_config(loaded, dir, domain_name, None) IN
         [ret |-> IF l.ret THEN Some(l.configs[domain_name]) ELSE None,
          configs |-> l.configs]

NoConfigOp == [n |-> 0, op |-> "none", domain_name |-> "estate", suffix |-> "json",
               ret |-> FALSE, count |-> 0, read |-> None, config |-> None,
               before |-> <<>>]

ConfigOp(op, domain_name) ==
    [NoConfigOp EXCEPT !.n = cf.n + 1, !.op = op, !.domain_name = domain_name,
                       !.before = configs]

\* somebody puts a definition file into the directory
WriteFile ==
    /\ cf.n < MaxConfigOps
    /\ \E stem \in Stems, suffix \in Suffixes, definition \in Definitions :
         /\ cfgdir' = Put(cfgdir, <<stem, suffix>>, definition)
         /\ cf' = [ConfigOp("write", stem) EXCEPT !.suffix = suffix]
    /\ UNCHANGED <<pipeline, ad, gh, web, bt, hc, deleted, ss, configs>>

\* load_config(domain_name) and reload_config(domain_name) (lines 223-226)
LoadConfig ==
    /\ cf.n < MaxConfigOps
    /\ \E domain_name \in Stems, op \in {"load", "reload"} :
         LET l == load_config(configs, cfgdir, domain_name, None) IN
         /\ configs' = l.configs
         /\ cf' = [ConfigOp(op, domain_name) EXCEPT !.ret = l.ret, !.read = l.read]
    /\ UNCHANGED <<pipeline, ad, gh, web, bt, hc, deleted, ss, cfgdir>>

LoadAllConfigs ==
    /\ cf.n < MaxConfigOps
    /\ LET l == load_all_configs(configs, cfgdir) IN
       /\ configs' = l.configs
       /\ cf' = [ConfigOp("load_all", "estate") EXCEPT !.count = l.ret]
    /\ UNCHANGED <<pipeline, ad, gh, web, bt, hc, deleted, ss, cfgdir>>

GetConfig ==
    /\ cf.n < MaxConfigOps
    /\ \E domain_name \in Stems :
         LET g == get_config(configs, cfgdir, domain_name) IN
         /\ configs' = g.configs
         /\ cf' = [ConfigOp("get", domain_name) EXCEPT !.ret = g.ret # None,
                                                       !.config = g.ret]
    /\ UNCHANGED <<pipeline, ad, gh, web, bt, hc, deleted, ss, cfgdir>>

\* save_config lines 244-284 with a supported format
SaveConfig ==
    /\ cf.n < MaxConfigOps
    /\ \E domain_name \in Stems, suffix \in Suffixes,
          definition \in {EstateDefinition, SupportDefinition} :
         LET config == DomainConfig(definition)[1] IN
         /\ cfgdir' = Put(cfgdir, <<domain_name, suffix>>, Dump(config))
         /\ configs' = Put(configs, domain_name, config)
         /\ cf' = [ConfigOp("save", domain_name) EXCEPT !.suffix = suffix, !.ret = TRUE,
                                                        !.config = Some(config)]
    /\ UNCHANGED <<pipeline, ad, gh, web, bt, hc, deleted, ss>>

\* ---------------------------------------------------------------- API Gateway
\* the tenants table: api_key -> (tenant_id, is_active)
ApiKeys == {"k1", "k2", "k3", "k9"}

TenantOfKey(api_key) ==
    CASE api_key = "k1" -> Some([tenant_id |-> "t1", is_active |-> TRUE])
      [] api_key = "k2" -> Some([tenant_id |-> "t2", is_active |-> TRUE])
      [] api_key = "k3" -> Some([tenant_id |-> "t3", is_active |-> FALSE])
      [] OTHER -> None

\* a lookup that forgets the is_active condition
db_verify_api_key_any(api_key, ok) ==
    IF ok /\ TenantOfKey(api_key) # None
    THEN Some(TenantOfKey(api_key)[1].tenant_id) ELSE None

\* postgres.verify_api_key lines 214-226 and TenantManager.verify_api_key lines
\* 100-122: the active tenant of the key, None when there is none or the query fails
db_verify_api_key(api_key, ok) ==
    IF ok /\ TenantOfKey(api_key) # None /\ TenantOfKey(api_key)[1].is_active
    THEN Some(TenantOfKey(api_key)[1].tenant_id) ELSE None

\* Authorization header values, as words and blanks; None is a missing header
Headers ==
    {None, Some(<<>>), Some(<<" ">>), Some(<<"Bearer">>), Some(<<"Bearer", " ">>)}
      \cup {Some(<<k>>) : k \in ApiKeys}
      \cup {Some(<<scheme, " ", k>>) : scheme \in {"Bearer", "bearer", "Basic"}, k \in ApiKeys}
      \cup {Some(<<"Bearer", " ", k, " ", "x">>) : k \in ApiKeys}

\* str.split(): the words between blanks
RECURSIVE split(_)
split(header) ==
    IF header = <<>> THEN <<>>
    ELSE IF Head(header) = " " THEN split(Tail(header))
    ELSE <<Head(header)>> \o split(Tail(header))

\* str.lower() of a scheme word
lower(word) == IF word = "Bearer" THEN "bearer" ELSE word

\* verify_api_key lines 112-154: <<status, tenant_id>>
verify_api_key(authorization, ok) ==
    IF authorization = None \/ authorization[1] = <<>> THEN [status |-> 401, tenant_id |-> None]
    ELSE LET words == split(authorization[1]) IN
         IF Len(words) # 2 \/ lower(words[1]) # "bearer"
         THEN [status |-> 401, tenant_id |-> None]
         ELSE LET tenant_id == db_verify_api_key(words[2], ok) IN
              IF tenant_id = None THEN [status |-> 401, tenant_id |-> None]
              ELSE [status |-> 200, tenant_id |-> tenant_id]

Routes == {"process_text", "process_voice", "list_domains"}

\* a request to a route declared with Depends(self.verify_api_key): the route
\* body, and with it the Orchestrator, runs only when the dependency returned
GatewayRequest ==
    \E route \in Routes, authorization \in Headers, ok \in BOOLEAN :
        LET v == verify_api_key(authorization, ok) IN
        /\ gw' = <<[route |-> route, authorization |-> authorization, db_ok |-> ok,
                    status |-> v.status, invoked |-> v.status = 200,
                    tenant_id |-> v.tenant_id]>>
        /\ UNCHANGED <<store, nextSid, am, appends, request_counts, rl, pol, rq, turns,
                       durable, faults, events, ad, gh, vo, side>>

\* ------------------------------------------------------ Pipeline Orchestrator
\* what RasaNLU.parse can hand back: _extract_slots keeps only truthy values;
\* a null intent name stays None; transport failure gives nlu_fallback
NluResults ==
    { [intent |-> Some("greet"), entities |-> {}],
      [intent |-> Some("search"), entities |-> {<<"location", "x">>}],
      [intent |-> Some("book"), entities |-> {<<"location", "x">>}],
      [intent |-> None, entities |-> {}] }

\* the requests explored: every parse result in the domain that configures the
\* intents, a greeting in the domain without retrieval and in an unknown domain
Scenarios ==
    { <<d, n>> \in DomainNames \X NluResults :
        d = "estate" \/ n.intent = Some("greet") }

Text(kind, turn) == [kind |-> kind, turn |-> turn]

NoResult == [kind |-> "none", text_response |-> Text("none", 0), intent |-> None,
             entities |-> None, api_response |-> None, violations |-> <<>>,
             session_id |-> None, retrieved_context_count |-> None]

NoPlan == [intent |-> None, entities |-> None, requires_api_call |-> FALSE, actions |-> <<>>]

IdleTurn == [pc |-> "idle", turn |-> 0, tenant |-> "t1", sid |-> UnknownSid,
             supplied |-> FALSE, is_safe |-> TRUE, moderation |-> None,
             domain |-> "ghost", bound |-> FALSE,
             intent |-> None, entities |-> {}, retrieved |-> 0, conversation |-> <<>>,
             plan |-> NoPlan, violations |-> <<>>, api |-> None, branch |-> "none",
             llm |-> None, trace |-> <<>>, result |-> NoResult,
             before |-> [store |-> <<>>, durable |-> {}]]

\* lines 243-246: the role/content pairs handed to the language model
RECURSIVE Conversation(_)
Conversation(history) ==
    IF history = <<>> THEN <<>>
    ELSE <<[role |-> Head(history).role, content |-> Head(history).content]>>
         \o Conversation(Tail(history))

\* lines 249-264: the action dict carries type, name and config only
BuildPlanForEveryIntent(domain, intent, entities) ==
    LET intent_config == get_intent_config(domain, intent) IN
    IF intent_config # None
    THEN [intent |-> intent, entities |-> Some(entities), requires_api_call |-> TRUE,
          actions |-> <<[keys |-> {"type", "name", "config"}, type |-> "api_call",
                         name |-> intent[1], config |-> intent_config[1],
                         requires_auth |-> FALSE]>>]
    ELSE [intent |-> intent, entities |-> Some(entities), requires_api_call |-> FALSE,
          actions |-> <<>>]

BuildPlan(domain, intent, entities) ==
    LET intent_config == get_intent_config(domain, intent) IN
    IF intent_config # None /\ intent_config[1].api_endpoint
    THEN [intent |-> intent, entities |-> Some(entities), requires_api_call |-> TRUE,
          actions |-> <<[keys |-> {"type", "name", "config"}, type |-> "api_call",
                         name |-> intent[1], config |-> intent_config[1],
                         requires_auth |-> FALSE]>>]
    ELSE [intent |-> intent, entities |-> Some(entities), requires_api_call |-> FALSE,
          actions |-> <<>>]

\* lines 270-273: the context process_text passes to validate_plan
PlanContext(is_safe) == [auth_token |-> FALSE, is_safe |-> is_safe]

\* line 282: metadata["violations"]
FirstMessageOnly(violations) ==
    IF violations = <<>> THEN <<>> ELSE <<violations[1].message>>

ViolationMessages(violations) == [i \in 1..Len(violations) |-> violations[i].message]

\* lines 306-331: which of the two prompts is built
PromptBranch(api) == IF api # None /\ api[1].success THEN "api_data" ELSE "intent"

\* lines 308-331: what each of the two prompts is made of
PromptParts(branch) ==
    IF branch = "api_data" THEN {"context_text", "text", "api_response.data"}
    ELSE IF branch = "intent" THEN {"context_text", "text", "intent", "entities"}
    ELSE {}

\* process_text is entered; with no session_id, create_session's SET is issued
BeginTurn(t) ==
    /\ rq[t].pc \in {"idle", "done", "raised"}
    /\ am[t].pc \in {"none", "ret"}
    /\ turns < MaxTurns
    /\ turns' = turns + 1
    /\ \E tenant \in (IF turns = 0 THEN {"t1"} ELSE Tenants),
          sid \in {-1} \cup {UnknownSid} \cup DOMAIN store :
         rq' = [rq EXCEPT ![t] = [IdleTurn EXCEPT
                   !.pc = IF sid = -1 THEN "create" ELSE "moderate",
                   !.before = [store |-> store, durable |-> durable],
                   !.turn = turns + 1, !.tenant = tenant,
                   !.supplied = sid # -1,
                   !.sid = IF sid = -1 THEN UnknownSid ELSE sid]]
    /\ am' = [am EXCEPT ![t] = NoCall]
    /\ UNCHANGED <<store, nextSid, appends, request_counts, rl, pol, durable, faults, events>>

\* a text request: the route calls process_text
StartTurn(t) == BeginTurn(t) /\ UNCHANGED ext

\* create_session lines 53-75: the SET completes; its result is not looked at
CreateSession(t) ==
    /\ rq[t].pc = "create"
    /\ nextSid' = nextSid + 1
    /\ \E ok \in Outcomes :
         /\ Failed(ok)
         /\ store' = redis_set(nextSid + 1, NewSession(rq[t].tenant), ok)
         /\ ss' = [set_ex(ss, nextSid + 1, Some(DefaultTtl), ok) EXCEPT
                     !.acks = Put(@, nextSid + 1, 0)]
    /\ rq' = [rq EXCEPT ![t].pc = "moderate", ![t].sid = nextSid + 1,
                        ![t].trace = Append(@, "create_session")]
    /\ UNCHANGED <<am, appends, request_counts, rl, pol, turns, durable, events,
                   ad, gh, web, conf, bt, hc, deleted>>

Blocked(r) ==
    [NoResult EXCEPT !.kind = "blocked", !.text_response = Text("cannot_process", 0),
                     !.intent = Some("moderation_failed")]

\* what the toxicity model does with the text: it scores it below the
\* threshold, scores a category above it, or raises
Classifier == {"clean", "toxic", "raises"}

\* moderation.py lines 46-100: ContentModerator.moderate
moderate_fail_closed(verdict) ==
    IF verdict = "raises"
    THEN [is_safe |-> FALSE, flagged_categories |-> {},
          message |-> "Moderation check failed, content allowed"]
    ELSE [is_safe |-> verdict = "clean",
          flagged_categories |-> IF verdict = "toxic" THEN {"toxicity"} ELSE {},
          message |-> IF verdict = "clean" THEN "Content is appropriate" ELSE "Content flagged for: toxicity"]

moderate(verdict) ==
    IF verdict = "raises"
    THEN [is_safe |-> TRUE, flagged_categories |-> {},
          message |-> "Moderation check failed, content allowed"]
    ELSE [is_safe |-> verdict = "clean",
          flagged_categories |-> IF verdict = "toxic" THEN {"toxicity"} ELSE {},
          message |-> IF verdict = "clean" THEN "Content is appropriate" ELSE "Content flagged for: toxicity"]

\* lines 201-207: `if not moderation_result["is_safe"]: return ...`
AfterModerationNoReturn(safe) == "nlu"

AfterModeration(safe) == IF safe THEN "nlu" ELSE "done"

\* lines 193-207: moderate, log_moderation, and the early return
Moderate(t) ==
    /\ rq[t].pc = "moderate"
    /\ \E verdict \in Classifier, ok \in Outcomes :
         /\ Failed(ok)
         /\ events' = log_event(events, "moderation", rq[t].turn, ok)
         /\ rq' = [rq EXCEPT ![t] =
                     LET moderation_result == moderate(verdict)
                         r == [@ EXCEPT !.is_safe = moderation_result.is_safe,
                                        !.moderation = Some(moderation_result),
                                        !.trace = @ \o <<"moderate", "log_moderation">>,
                                        !.pc = IF analytics_raises(ok) THEN "handler"
                                               ELSE AfterModeration(moderation_result.is_safe)]
                     IN IF r.pc = "done" THEN [r EXCEPT !.result = Blocked(r)] ELSE r]
    /\ UNCHANGED <<store, nextSid, am, appends, request_counts, rl, pol, turns, durable, ext>>

\* a retrieval step that ignores the flag of the domain
ShouldRetrieveAlways(domain) == domain \in Domains

\* line 220: `if domain_config and domain_config.context_retrieval.enabled`
ShouldRetrieve(domain) == domain \in Domains /\ RetrievalEnabled(domain)

\* lines 210-227: nlu.parse completes, get_config binds domain_config
ParseIntent(t) ==
    /\ rq[t].pc = "nlu"
    /\ \E sc \in Scenarios :
         LET d == sc[1]
             n == sc[2]
         IN rq' = [rq EXCEPT ![t].intent = n.intent, ![t].entities = n.entities,
                             ![t].domain = d, ![t].bound = TRUE,
                             ![t].trace = Append(@, "nlu"),
                             ![t].pc = IF ShouldRetrieve(d) THEN "retrieve" ELSE "history"]
    /\ UNCHANGED <<store, nextSid, am, appends, request_counts, rl, pol, turns, durable, faults, events, ext>>

\* lines 221-227: qdrant.search completes ([] when the search failed)
Retrieve(t) ==
    /\ rq[t].pc = "retrieve"
    /\ \E n \in {0, 1} :
         rq' = [rq EXCEPT ![t].retrieved = n, ![t].trace = Append(@, "search"),
                          ![t].pc = "history"]
    /\ UNCHANGED <<store, nextSid, am, appends, request_counts, rl, pol, turns, durable, faults, events, ext>>

\* lines 230-246: get_history's GET completes
LoadHistory(t) ==
    /\ rq[t].pc = "history"
    /\ \E ok \in Outcomes :
         /\ Failed(ok)
         /\ rq' = [rq EXCEPT ![t].conversation =
                              Conversation(get_history(redis_get(rq[t].sid, ok), HistoryLimit)),
                             ![t].trace = Append(@, "get_history"),
                             ![t].pc = "validate"]
    /\ UNCHANGED <<store, nextSid, am, appends, request_counts, rl, pol, turns, durable, events, ext>>

Rejected(r, violations) ==
    [NoResult EXCEPT !.kind = "rejected", !.text_response = Text("unable", 0),
                     !.intent = r.intent, !.entities = Some(r.entities),
                     !.violations = ViolationMessages(violations)]

\* lines 249-283: build the plan, validate it, return the rejection
ValidatePlan(t) ==
    /\ rq[t].pc = "validate"
    /\ LET plan == BuildPlan(rq[t].domain, rq[t].intent, rq[t].entities)
           v == validate_plan(request_counts, rq[t].tenant, plan, PlanContext(rq[t].is_safe))
           r == [rq[t] EXCEPT !.plan = plan, !.violations = v.violations,
                              !.trace = Append(@, "validate")]
       IN /\ request_counts' = v.counts
          /\ rl' = [rl EXCEPT ![rq[t].tenant] = Append(@, v.rate_ok)]
          /\ rq' = [rq EXCEPT ![t] =
                      IF ~v.is_valid
                      THEN [r EXCEPT !.pc = "done", !.result = Rejected(r, v.violations)]
                      ELSE IF plan.requires_api_call
                                /\ get_intent_config(rq[t].domain, rq[t].intent) # None
                      THEN [r EXCEPT !.pc = "action"]
                      ELSE [r EXCEPT !.pc = "generate"]]
    /\ UNCHANGED <<store, nextSid, am, appends, pol, turns, durable, faults, events, ext>>

\* call_api / call_with_config: every outcome comes back as a result dict
ApiOutcomes == {call_api_body(http).result : http \in HttpOutcomes} \cup {AdapterError}

\* lines 286-300: call_with_config and log_api_call complete
ExecuteAction(t) ==
    /\ rq[t].pc = "action"
    /\ \E outcome \in ApiOutcomes, ok \in Outcomes :
         /\ Failed(ok)
         /\ events' = log_event(events, "api_call", rq[t].turn, ok)
         /\ rq' = [rq EXCEPT ![t].api = Some(outcome),
                             ![t].trace = @ \o <<"call_api", "log_api_call">>,
                             ![t].pc = IF analytics_raises(ok) THEN "handler"
                                       ELSE "generate"]
    /\ UNCHANGED <<store, nextSid, am, appends, request_counts, rl, pol, turns, durable, ext>>

UserMessage(r) == Message("user", Text("text", r.turn), r.intent, r.entities)

AssistantMessage(r) == Message("assistant", r.llm[1], None, {})

\* lines 333-346: the user message is stored only after generation returned
PersistBeforeGenerate == <<"add_user", "generate">>

GenerateSteps == <<"generate", "add_user">>

\* lines 306-346: llm.generate returns (or re-raises); add_message(user) is issued
Generate(t) ==
    /\ rq[t].pc = "generate"
    /\ \E raised \in BOOLEAN :
         IF raised
         THEN /\ rq' = [rq EXCEPT ![t].trace = Append(@, "generate"),
                                  ![t].branch = PromptBranch(rq[t].api),
                                  ![t].pc = "handler"]
              /\ am' = am
         ELSE /\ rq' = [rq EXCEPT ![t].trace = @ \o GenerateSteps,
                                  ![t].branch = PromptBranch(rq[t].api),
                                  ![t].llm = Some(Text("llm", rq[t].turn)),
                                  ![t].pc = "persist_user"]
              /\ am' = [am EXCEPT ![t] = CallAddMessage(rq[t].sid, UserMessage(rq[t]))]
    /\ UNCHANGED <<store, nextSid, appends, request_counts, rl, pol, turns, durable, faults, events, ext>>

\* lines 348-352: the first add_message is back, the second is issued
PersistAssistant(t) ==
    /\ rq[t].pc = "persist_user"
    /\ am[t].pc = "ret"
    /\ am' = [am EXCEPT ![t] = CallAddMessage(rq[t].sid, AssistantMessage(rq[t]))]
    /\ rq' = [rq EXCEPT ![t].trace = Append(@, "add_assistant"), ![t].pc = "persist_asst"]
    /\ UNCHANGED <<store, nextSid, appends, request_counts, rl, pol, turns, durable, faults, events, ext>>

\* lines 355-363: postgres.save_message (False, not an exception, on failure)
SaveMessage(t) ==
    /\ rq[t].pc = "persist_asst"
    /\ am[t].pc = "ret"
    /\ \E ok \in Outcomes :
         /\ Failed(ok)
         /\ durable' = IF ok
                       THEN durable \cup {[message_id |-> rq[t].turn,
                                           conversation_id |-> rq[t].sid,
                                           role |-> "user", intent |-> rq[t].intent,
                                           entities |-> rq[t].entities,
                                           is_safe |-> rq[t].is_safe]}
                       ELSE durable
    /\ rq' = [rq EXCEPT ![t].trace = Append(@, "save_message"), ![t].pc = "analytics"]
    /\ UNCHANGED <<store, nextSid, am, appends, request_counts, rl, pol, turns, events, ext>>

\* a reply that falls back to a canned text when the external call failed
ReplyTemplated(r) ==
    [NoResult EXCEPT !.kind = "reply",
                     !.text_response = IF r.api # None /\ ~r.api[1].success
                                       THEN Text("request_failed", 0) ELSE r.llm[1],
                     !.intent = r.intent, !.entities = Some(r.entities),
                     !.api_response = r.api, !.session_id = Some(r.sid),
                     !.retrieved_context_count = Some(r.retrieved)]

Reply(r) ==
    [NoResult EXCEPT !.kind = "reply", !.text_response = r.llm[1], !.intent = r.intent,
                     !.entities = Some(r.entities), !.api_response = r.api,
                     !.session_id = Some(r.sid),
                     !.retrieved_context_count = Some(r.retrieved)]

\* lines 366-372: log_request completes
LogRequest(t) ==
    /\ rq[t].pc = "analytics"
    /\ \E ok \in Outcomes :
         /\ Failed(ok)
         /\ events' = log_event(events, "request", rq[t].turn, ok)
         /\ rq' = [rq EXCEPT ![t].trace = Append(@, "log_request"),
                             ![t].pc = IF analytics_raises(ok) THEN "handler"
                                       ELSE "respond"]
    /\ UNCHANGED <<store, nextSid, am, appends, request_counts, rl, pol, turns, durable, ext>>

\* lines 374-395: log_response completes, the normal return
EmitAnalytics(t) ==
    /\ rq[t].pc = "respond"
    /\ \E ok \in Outcomes :
         /\ Failed(ok)
         /\ events' = log_event(events, "response", rq[t].turn, ok)
         /\ rq' = [rq EXCEPT ![t] =
                     LET r == [@ EXCEPT !.trace = Append(@, "log_response")]
                     IN IF analytics_raises(ok) THEN [r EXCEPT !.pc = "handler"]
                        ELSE [r EXCEPT !.result = Reply(r), !.pc = "done"]]
    /\ UNCHANGED <<store, nextSid, am, appends, request_counts, rl, pol, turns, durable, ext>>

Fallback(r) ==
    [NoResult EXCEPT !.kind = "fallback",
                     !.text_response = IF r.domain \in Domains
                                       THEN Text("domain_fallback", 0)
                                       ELSE Text("generic_error", 0)]

\* lines 397-414: log_error, then `if domain_config:`; the name is unbound when
\* the exception came before line 217, and reading it raises UnboundLocalError
Handler(t) ==
    /\ rq[t].pc = "handler"
    /\ \E ok \in Outcomes :
         /\ Failed(ok)
         /\ events' = log_event(events, "error", rq[t].turn, ok)
         /\ rq' = [rq EXCEPT ![t] =
                     LET r == [@ EXCEPT !.trace = Append(@, "log_error")]
                     IN IF r.bound /\ ~analytics_raises(ok)
                        THEN [r EXCEPT !.pc = "done", !.result = Fallback(r)]
                        ELSE [r EXCEPT !.pc = "raised", !.result.kind = "raised"]]
    /\ UNCHANGED <<store, nextSid, am, appends, request_counts, rl, pol, turns, durable, ext>>

\* a step of the try block (moderation through analytics) raises an exception
\* its collaborator did not absorb
FaultPcs == {"moderate", "nlu", "retrieve", "history", "validate", "action",
             "persist_user", "persist_asst", "analytics", "respond"}

RaiseUnexpected(t) ==
    /\ rq[t].pc \in FaultPcs
    /\ rq' = [rq EXCEPT ![t].pc = "handler", ![t].trace = Append(@, "raise")]
    /\ am' = [am EXCEPT ![t] = NoCall]
    /\ UNCHANGED <<store, nextSid, appends, request_counts, rl, pol, turns, durable, faults, events, ext>>


\* ----------------------------------------------------------------- voice path
NoVoice == [pc |-> "idle", return_audio |-> FALSE, audio |-> FALSE, status |-> 0,
            body |-> None]

\* the body of the 200 answer of the process routes
ProcessResponse(result) == [success |-> TRUE, text_response |-> result.text_response]

\* route lines 275-292: the upload is saved and process_voice is called
VoiceRequest(t) ==
    /\ vo.pc \in {"idle", "done"}
    /\ rq[t].pc \in {"idle", "done", "raised"}
    /\ turns < MaxTurns
    /\ \E return_audio \in BOOLEAN :
         vo' = [NoVoice EXCEPT !.pc = "asr", !.return_audio = return_audio]
    /\ UNCHANGED <<store, nextSid, am, appends, request_counts, rl, pol, rq, turns, durable,
                   faults, events, ad, gh, gw, side>>

\* process_voice lines 111-124: asr.transcribe returns or re-raises; with a
\* transcript, process_text is entered
VoiceTranscribe(t) ==
    /\ vo.pc = "asr"
    /\ \/ /\ BeginTurn(t)
          /\ vo' = [vo EXCEPT !.pc = "text"]
       \/ /\ vo' = [vo EXCEPT !.pc = "handler"]
          /\ UNCHANGED <<store, nextSid, am, appends, request_counts, rl, pol, rq, turns,
                         durable, faults, events>>
    /\ UNCHANGED <<ad, gh, gw, side>>

\* lines 126-135: process_text is back; tts.synthesize returns or re-raises
VoiceSynthesize(t) ==
    /\ vo.pc = "text"
    /\ rq[t].pc \in {"done", "raised"}
    /\ IF rq[t].pc = "raised" THEN vo' = [vo EXCEPT !.pc = "handler"]
       ELSE IF ~vo.return_audio THEN vo' = [vo EXCEPT !.pc = "log"]
       ELSE \E ok \in BOOLEAN :
              vo' = IF ok THEN [vo EXCEPT !.pc = "log", !.audio = TRUE]
                    ELSE [vo EXCEPT !.pc = "handler"]
    /\ UNCHANGED <<store, nextSid, am, appends, request_counts, rl, pol, rq, turns, durable,
                   faults, events, ad, gh, gw, side>>

\* lines 137-147 and route lines 294-311: log_response, the result is returned
\* and the route answers 200
VoiceRespond(t) ==
    /\ vo.pc = "log"
    /\ \E ok \in Outcomes :
         /\ Failed(ok)
         /\ events' = log_event(events, "response", rq[t].turn, ok)
         /\ vo' = IF analytics_raises(ok) THEN [vo EXCEPT !.pc = "handler"]
                  ELSE [vo EXCEPT !.pc = "done", !.status = 200,
                                  !.body = Some(ProcessResponse(rq[t].result))]
    /\ UNCHANGED <<store, nextSid, am, appends, request_counts, rl, pol, rq, turns, durable,
                   ad, gh, gw, side>>

\* lines 149-155 and route lines 313-318: log_error, `raise`; the route turns
\* the exception into HTTPException(500)
VoiceHandler(t) ==
    /\ vo.pc = "handler"
    /\ \E ok \in Outcomes :
         /\ Failed(ok)
         /\ events' = log_event(events, "error", turns, ok)
         /\ vo' = [vo EXCEPT !.pc = "done", !.status = 500, !.body = None]
    /\ UNCHANGED <<store, nextSid, am, appends, request_counts, rl, pol, rq, turns, durable,
                   ad, gh, gw, side>>

\* ------------------------------------------------------------ specifications
\* everything but the configuration of the Redis client
Start ==
    /\ store = <<>>
    /\ nextSid = 0
    /\ am = [t \in Tasks |-> NoCall]
    /\ appends = 0
    /\ request_counts = [tn \in Tenants |-> 0]
    /\ rl = [tn \in Tenants |-> <<>>]
    /\ pol = <<>>
    /\ rq = [t \in Tasks |-> IdleTurn]
    /\ turns = 0
    /\ durable = {}
    /\ faults = 0
    /\ events = {}
    /\ ad = NoAdapterCall
    /\ gh = <<>>
    /\ gw = <<>>
    /\ vo = NoVoice
    /\ cfgdir = <<>>
    /\ configs = <<>>
    /\ cf = NoConfigOp
    /\ bt = NoBatch
    /\ deleted = {}
    /\ hc = [up |-> [c \in Capabilities |-> TRUE], last |-> None]

Init == Start /\ ss = NoSessions(DefaultTtl)

\* turns run one after another on task 1; the interleavings of two coroutines
\* on the store are those of SpecSession
Next ==
    \E t \in {1} :
        \/ StartTurn(t)
        \/ CreateSession(t)
        \/ Moderate(t)
        \/ ParseIntent(t)
        \/ Retrieve(t)
        \/ LoadHistory(t)
        \/ ValidatePlan(t)
        \/ ExecuteAction(t)
        \/ Generate(t)
        \/ AddMessageStep(t)
        \/ PersistAssistant(t)
        \/ SaveMessage(t)
        \/ LogRequest(t)
        \/ EmitAnalytics(t)
        \/ Handler(t)

Spec == Init /\ [][Next]_vars

\* the same pipeline with collaborators that may raise at any step
NextFault == Next \/ \E t \in {1} : RaiseUnexpected(t)

SpecFault == Init /\ [][NextFault]_vars

\* --- Session Manager on its own: two coroutines appending to stored sessions
Prefill(n) ==
    [i \in 1..n |-> Message(IF i % 2 = 1 THEN "user" ELSE "assistant", Text("old", i), None, {})]

\* session 1 exists already, either fresh or one message short of the cap
SessInit ==
    /\ \E n \in {0, MaxHistory - 1} :
         store = [s \in {1} |-> [NewSession("t1") EXCEPT !.history = Prefill(n),
                                                         !.message_count = n]]
    /\ nextSid = 1
    /\ am = [t \in Tasks |-> NoCall]
    /\ appends = 0
    /\ request_counts = [tn \in Tenants |-> 0]
    /\ rl = [tn \in Tenants |-> <<>>]
    /\ pol = <<>>
    /\ rq = [t \in Tasks |-> IdleTurn]
    /\ turns = 0
    /\ durable = {}
    /\ faults = 0
    /\ events = {}
    /\ ad = NoAdapterCall
    /\ gh = <<>>
    /\ gw = <<>>
    /\ vo = NoVoice
    /\ cfgdir = <<>>
    /\ configs = <<>>
    /\ cf = NoConfigOp
    /\ bt = NoBatch
    /\ deleted = {}
    /\ ss = [NoSessions(DefaultTtl) EXCEPT
              !.remaining = [s \in {1} |-> DefaultTtl],
              !.acks = [s \in {1} |-> store[1].message_count]]
    /\ hc = [up |-> [c \in Capabilities |-> TRUE], last |-> None]

\* a caller starts add_message on a stored or an unknown session
SessAdd(t) ==
    /\ am[t].pc \in {"none", "ret"}
    /\ appends < MaxAppends
    /\ appends' = appends + 1
    /\ \E sid \in DOMAIN store \cup {UnknownSid} :
         am' = [am EXCEPT ![t] =
                  CallAddMessage(sid, Message("user", Text("text", appends + 1),
                                              Some("greet"), {}))]
    /\ UNCHANGED <<store, nextSid, request_counts, rl, pol, rq, turns, durable, faults, events, ext>>

\* the limits a caller passes to get_history
Limits == {0, 2, HistoryLimit}

\* get_history lines 203-213: the GET completes and the slice is returned
SessHistory ==
    \E sid \in DOMAIN store \cup {UnknownSid}, limit \in Limits, ok \in Outcomes :
        /\ Failed(ok)
        /\ gh' = <<[sid |-> sid, limit |-> limit, session |-> redis_get(sid, ok),
                    result |-> get_history(redis_get(sid, ok), limit)]>>
        /\ UNCHANGED <<store, nextSid, am, appends, request_counts, rl, pol, rq, turns,
                       durable, events, ad, web, side>>

\* delete_session lines 258-270: the DEL completes and its result is returned
SessDelete ==
    \E sid \in DOMAIN store \cup {UnknownSid}, ok \in Outcomes :
        LET d == redis_delete(sid, ok) IN
        /\ Failed(ok)
        /\ store' = d.store
        /\ deleted' = IF d.ret THEN deleted \cup {sid} ELSE deleted
        /\ ss' = [ss EXCEPT !.remaining = IF ok /\ sid \in DOMAIN @ THEN Drop(@, sid) ELSE @]
        /\ UNCHANGED <<nextSid, am, appends, request_counts, rl, pol, rq, turns, durable,
                       events, ad, gh, web, conf, bt, hc>>

SessNext == SessHistory \/ \E t \in Tasks : SessAdd(t) \/ AddMessageStep(t)

SpecSession == SessInit /\ [][SessNext]_vars

\* --- sessions that are deleted while add_message calls are under way
DeleteNext == SessDelete \/ \E t \in Tasks : SessAdd(t) \/ AddMessageStep(t)

SpecDelete == SessInit /\ [][DeleteNext]_vars

\* --- the life of session records: one caller at a time, idle periods, and a
\*     Redis client built with either REDIS_SESSION_TTL
LifeInit == Start /\ \E redis_default_ttl \in RedisTtls : ss = NoSessions(redis_default_ttl)

\* calls, idle periods and add_message calls share one budget
LifeBudget == ss.last.n + appends < MaxSessionOps

SessionCall(op, sid, ret) ==
    [n |-> ss.last.n + 1, op |-> op, sid |-> sid, existed |-> sid \in DOMAIN store,
     ret |-> ret]

\* create_session lines 33-79, called on its own
SessCreate ==
    /\ LifeBudget
    /\ nextSid' = nextSid + 1
    /\ \E ok \in Outcomes :
         /\ Failed(ok)
         /\ store' = redis_set(nextSid + 1, NewSession("t1"), ok)
         /\ ss' = [set_ex(ss, nextSid + 1, Some(DefaultTtl), ok) EXCEPT
                     !.acks = Put(@, nextSid + 1, 0),
                     !.last = SessionCall("create_session", nextSid + 1, TRUE)]
    /\ UNCHANGED <<am, appends, request_counts, rl, pol, rq, turns, durable, events,
                   ad, gh, web, conf, bt, hc, deleted>>

\* RedisClient.update_session lines 206-222 on the record as the store holds it:
\* [ret, store, ss]
redis_update_session(sid, ok) ==
    LET session == redis_get(sid, TRUE)
        merged == IF session = None THEN EmptyRecord ELSE session[1]
    IN [ret |-> ok, store |-> redis_set(sid, merged, ok), ss |-> set_ex(ss, sid, None, ok)]

\* SessionManager.update_session lines 105-132
SessUpdate ==
    /\ LifeBudget
    /\ \E sid \in DOMAIN store \cup {UnknownSid}, ok \in Outcomes :
         LET u == redis_update_session(sid, ok) IN
         /\ Failed(ok)
         /\ store' = u.store
         /\ ss' = [u.ss EXCEPT !.last = SessionCall("update_session", sid, u.ret)]
    /\ UNCHANGED <<nextSid, am, appends, request_counts, rl, pol, rq, turns, durable, events,
                   ad, gh, web, conf, bt, hc, deleted>>

\* update_context lines 219-246: False without a record, else update_session
SessUpdateContext ==
    /\ LifeBudget
    /\ \E sid \in DOMAIN store \cup {UnknownSid}, ok \in Outcomes :
         LET u == redis_update_session(sid, ok) IN
         /\ Failed(ok)
         /\ IF redis_get(sid, TRUE) = None
            THEN /\ store' = store
                 /\ ss' = [ss EXCEPT !.last = SessionCall("update_context", sid, FALSE)]
            ELSE /\ store' = u.store
                 /\ ss' = [u.ss EXCEPT !.last = SessionCall("update_context", sid, u.ret)]
    /\ UNCHANGED <<nextSid, am, appends, request_counts, rl, pol, rq, turns, durable, events,
                   ad, gh, web, conf, bt, hc, deleted>>

\* extend_session lines 272-293: EXPIRE key ttl; true unless the command raised
SessExtend ==
    /\ LifeBudget
    /\ \E sid \in DOMAIN store \cup {UnknownSid}, ok \in Outcomes :
         /\ Failed(ok)
         /\ ss' = [ss EXCEPT
                     !.remaining = IF ok /\ sid \in DOMAIN @ THEN Put(@, sid, DefaultTtl)
                                   ELSE @,
                     !.last = SessionCall("extend_session", sid, ok)]
    /\ UNCHANGED <<store, nextSid, am, appends, request_counts, rl, pol, rq, turns, durable,
                   events, ad, gh, web, conf, bt, hc, deleted>>

\* DefaultTtl seconds pass without a call; Redis drops the keys whose time is up
SessIdle ==
    /\ LifeBudget
    /\ am[1].pc \in {"none", "ret"}
    /\ LET alive == {sid \in DOMAIN ss.remaining : ss.remaining[sid] > DefaultTtl} IN
       /\ store' = [sid \in DOMAIN store \cap alive |-> store[sid]]
       /\ ss' = [ss EXCEPT !.remaining = [sid \in alive |-> ss.remaining[sid] - DefaultTtl],
                           !.last = SessionCall("idle", UnknownSid, TRUE)]
    /\ UNCHANGED <<nextSid, am, appends, request_counts, rl, pol, rq, turns, durable, faults,
                   events, ad, gh, web, conf, bt, hc, deleted>>

LifeNext ==
    \/ SessCreate \/ SessUpdate \/ SessUpdateContext \/ SessExtend \/ SessIdle \/ SessDelete
    \/ (LifeBudget /\ SessAdd(1)) \/ AddMessageStep(1)

SpecLifecycle == LifeInit /\ [][LifeNext]_vars

\* --- Policy Planner on its own: validate_plan called with any plan and context
PlanActions ==
    { <<>>,
      <<[keys |-> {"type", "name", "config"}, type |-> "api_call", name |-> "book",
         config |-> [name |-> "book", api_endpoint |-> TRUE, requires_auth |-> TRUE],
         requires_auth |-> FALSE]>>,
      <<[keys |-> {"type", "name", "requires_auth"}, type |-> "api_call", name |-> "pay",
         config |-> [name |-> "pay", api_endpoint |-> TRUE, requires_auth |-> TRUE],
         requires_auth |-> TRUE]>> }

Plans ==
    { [intent |-> i, entities |-> e, requires_api_call |-> a # <<>>, actions |-> a] :
        i \in {None, Some("greet")},
        e \in {None, Some({}), Some({<<"location", "">>}),
               Some({<<"location", "x">>, <<"date", "">>})},
        a \in PlanActions }

Contexts == [auth_token : BOOLEAN, is_safe : BOOLEAN]

PolicyValidate ==
    /\ Len(rl["t1"]) + Len(rl["t2"]) < MaxCalls
    /\ \E tenant \in Tenants, plan \in Plans, context \in Contexts :
         LET v == validate_plan(request_counts, tenant, plan, context) IN
         /\ request_counts' = v.counts
         /\ rl' = [rl EXCEPT ![tenant] = Append(@, v.rate_ok)]
         /\ pol' = <<[tenant |-> tenant, plan |-> plan, context |-> context,
                      is_valid |-> v.is_valid, violations |-> v.violations,
                      rate_ok |-> v.rate_ok]>>
    /\ UNCHANGED <<store, nextSid, am, appends, rq, turns, durable, faults, events, ext>>

PolicyNext == PolicyValidate

SpecPolicy == Init /\ [][PolicyNext]_vars

\* ------------------------------------------------------------------ claims
Steps(t, names) == Cardinality({i \in 1..Len(rq[t].trace) : rq[t].trace[i] \in names})

\* C1: a turn whose input moderation flags as unsafe has, from that step on, ended
\* with intent "moderation_failed" and no entities, and has made no NLU, vector
\* search, policy validation, external action or generation call.
C1_UnsafeIsBlocked ==
    \A t \in Tasks :
        ~rq[t].is_safe =>
            /\ rq[t].pc = "done"
            /\ rq[t].result.intent = Some("moderation_failed")
            /\ rq[t].result.entities = None
            /\ Steps(t, {"nlu", "search", "validate", "call_api", "generate"}) = 0

C1_Witness ==
    \E t \in Tasks : rq[t].pc = "done" /\ ~rq[t].is_safe /\ rq[t].result.kind = "blocked"

\* C2: once validate_plan has reported an error-severity violation the turn has
\* ended with the rejection response, its metadata lists the message of every
\* violation returned, and no action call, generation or persistence was made.
C2_RejectedListsAll ==
    \A t \in Tasks :
        HasError(rq[t].violations) =>
            /\ rq[t].pc = "done"
            /\ rq[t].result.kind = "rejected"
            /\ Len(rq[t].result.violations) = Len(rq[t].violations)
            /\ \A i \in 1..Len(rq[t].violations) :
                 rq[t].result.violations[i] = rq[t].violations[i].message
            /\ Steps(t, {"call_api", "generate", "add_user", "add_assistant",
                         "save_message"}) = 0

C2_Witness ==
    \E t \in Tasks :
        /\ rq[t].result.kind = "rejected"
        /\ Len(rq[t].violations) = 2
        /\ rq[t].violations[1].type = "rate_limit"
        /\ rq[t].violations[2].type = "data_validation"

\* C3: whichever step of the try block raises, process_text returns a result and
\* raises nothing.
C3_NeverPropagates == \A t \in Tasks : rq[t].pc # "raised"

C5_ValidIffNoError ==
    pol # <<>> =>
        LET c == pol[1] IN
        /\ c.is_valid <=> ~(\E i \in 1..Len(c.violations) : c.violations[i].severity = "error")
        /\ c.plan.entities # None =>
             \A e \in c.plan.entities[1] :
                 e[2] = "" =>
                     \E i \in 1..Len(c.violations) :
                         /\ c.violations[i].severity = "warning"
                         /\ c.violations[i].message.arg = e[1]
        /\ (\A i \in 1..Len(c.violations) : c.violations[i].severity = "warning")
               => c.is_valid

C5_Witness ==
    /\ pol # <<>>
    /\ pol[1].is_valid
    /\ pol[1].plan.entities # None
    /\ \E i \in 1..Len(pol[1].violations) : pol[1].violations[i].severity = "warning"

\* C6: in call order, the rate-limit check of a tenant passes for exactly the first
\* RateLimitPerMinute validate_plan calls; every later call returns an error
\* rate_limit violation and is invalid, so never more than the ceiling pass.
C6_FirstNPass ==
    /\ \A tn \in Tenants :
         /\ \A i \in 1..Len(rl[tn]) : rl[tn][i] <=> i <= RateLimitPerMinute
         /\ Count(rl[tn], TRUE) <= RateLimitPerMinute
         /\ request_counts[tn] = Count(rl[tn], TRUE)
    /\ pol # <<>> =>
         LET c == pol[1]
             limited == {i \in 1..Len(c.violations) : c.violations[i].type = "rate_limit"}
         IN /\ c.rate_ok <=> limited = {}
            /\ \A i \in limited : c.violations[i].severity = "error"
            /\ ~c.rate_ok => ~c.is_valid

C6_Witness ==
    /\ Len(rl["t1"]) >= RateLimitPerMinute + 2
    /\ Len(rl["t2"]) >= 1
    /\ pol # <<>> /\ pol[1].tenant = "t2" /\ pol[1].rate_ok

\* C7: a turn of tenant T on a supplied session that belongs to another tenant
\* neither reads that session's history into its generation request nor appends
\* its messages to it.
C7_SessionsTenantScoped ==
    \A t \in Tasks :
        (/\ rq[t].supplied
         /\ rq[t].sid \in DOMAIN store
         /\ store[rq[t].sid].tenant_id \in Tenants \ {rq[t].tenant}) =>
            /\ rq[t].conversation = <<>>
            /\ \A i \in 1..Len(store[rq[t].sid].history) :
                 store[rq[t].sid].history[i].content.turn # rq[t].turn

\* C8: a validated plan with an action whose intent configuration has
\* requires_auth = true (and no auth token in the context) carries an error
\* unauthorized violation, the turn is rejected and the endpoint is not called.
C8_AuthRequiredIsRejected ==
    \A t \in Tasks :
        (/\ Steps(t, {"validate"}) = 1
         /\ \E i \in 1..Len(rq[t].plan.actions) : rq[t].plan.actions[i].config.requires_auth) =>
            /\ \E i \in 1..Len(rq[t].violations) :
                 /\ rq[t].violations[i].type = "unauthorized"
                 /\ rq[t].violations[i].severity = "error"
            /\ rq[t].result.kind = "rejected"
            /\ Steps(t, {"call_api"}) = 0

\* C9: a turn that has ended neither moderation-blocked nor plan-rejected called
\* generation exactly once, and when generation returned, its output is the
\* text_response, whatever the external action call returned; no turn calls
\* generation twice.
C9_GeneratesOnce ==
    \A t \in Tasks :
        /\ Steps(t, {"generate"}) <= 1
        /\ (rq[t].pc = "done" /\ rq[t].result.kind \notin {"blocked", "rejected"}) =>
             /\ Steps(t, {"generate"}) = 1
             /\ rq[t].llm # None =>
                  /\ rq[t].result.kind = "reply"
                  /\ rq[t].result.text_response = rq[t].llm[1]

C9_Witness ==
    \E t \in Tasks :
        /\ rq[t].pc = "done"
        /\ rq[t].api # None /\ rq[t].api[1].error_type = "timeout"
        /\ rq[t].result.kind = "reply"
        /\ rq[t].result.text_response = Text("llm", rq[t].turn)

\* C10: after a turn that returned the generated reply, the history of its
\* session ends with the turn's user message (with the detected intent and
\* entities) immediately followed by its assistant message.
C10_TurnIsPersisted ==
    \A t \in Tasks :
        (rq[t].pc = "done" /\ rq[t].result.kind = "reply") =>
            /\ rq[t].sid \in DOMAIN store
            /\ LET h == store[rq[t].sid].history IN
               /\ Len(h) >= 2
               /\ h[Len(h) - 1] = UserMessage(rq[t])
               /\ h[Len(h)] = AssistantMessage(rq[t])

\* --- Data Adapter on its own: calls with every outcome of the HTTP request
AdapterNext == AdapterCall \/ AdapterAttempt

SpecAdapter == Init /\ [][AdapterNext]_vars

\* --- the voice route: process_voice around the text pipeline
VoiceNext ==
    \E t \in {1} :
        \/ VoiceRequest(t)
        \/ VoiceTranscribe(t)
        \/ VoiceSynthesize(t)
        \/ VoiceRespond(t)
        \/ VoiceHandler(t)
        \/ CreateSession(t)
        \/ Moderate(t)
        \/ ParseIntent(t)
        \/ Retrieve(t)
        \/ LoadHistory(t)
        \/ ValidatePlan(t)
        \/ ExecuteAction(t)
        \/ Generate(t)
        \/ AddMessageStep(t)
        \/ PersistAssistant(t)
        \/ SaveMessage(t)
        \/ LogRequest(t)
        \/ EmitAnalytics(t)
        \/ Handler(t)

SpecVoice == Init /\ [][VoiceNext]_vars

\* --- one batch_call on its own
BatchNext == BatchCall \/ BatchTaskDone \/ BatchReturn

SpecBatch == Init /\ [][BatchNext]_vars

\* --- health queries while capabilities go down and come back
HealthNext == HealthChange \/ HealthQuery

SpecHealth == Init /\ [][HealthNext]_vars

\* --- Config Store on its own: a definition directory that changes under it
ConfigNext == WriteFile \/ LoadConfig \/ LoadAllConfigs \/ GetConfig \/ SaveConfig

SpecConfig == Init /\ [][ConfigNext]_vars

\* --- API Gateway on its own: requests with every Authorization header
GatewayNext == GatewayRequest

SpecGateway == Init /\ [][GatewayNext]_vars

\* position of each call in the body of process_text
StepOrder == <<"create_session", "moderate", "log_moderation", "nlu", "search",
               "get_history", "validate", "call_api", "log_api_call", "generate",
               "add_user", "add_assistant", "save_message", "log_request",
               "log_response", "log_error">>

Rank(step) == CHOOSE i \in 1..Len(StepOrder) : StepOrder[i] = step

\* C11: the calls of one process_text execution are made in the order session
\* resolve, moderate, parse intent, retrieve, load history, validate plan, execute
\* action, generate, persist, analytics; none is made twice, and while a session
\* write of the turn is in flight the turn waits at its persist step.
C11_StepsInOrder ==
    \A t \in Tasks :
        /\ \A i \in 1..Len(rq[t].trace) : rq[t].trace[i] \in Range(StepOrder)
        /\ \A i, j \in 1..Len(rq[t].trace) :
             i < j => Rank(rq[t].trace[i]) < Rank(rq[t].trace[j])
        /\ am[t].pc \in {"get", "upd_get", "upd_set"} =>
             rq[t].pc \in {"persist_user", "persist_asst"}

C11_Witness ==
    \E t \in Tasks :
        /\ rq[t].pc = "done"
        /\ rq[t].trace = <<"create_session", "moderate", "log_moderation", "nlu", "search",
                           "get_history", "validate", "call_api", "log_api_call",
                           "generate", "add_user", "add_assistant", "save_message",
                           "log_request", "log_response">>

\* C12: whatever the HTTP request does (2xx, non-2xx, timeout, connection error,
\* unreadable body), a finished call_api or call_with_config has returned a result
\* with a boolean success field and has raised nothing; success is true exactly
\* for an answered 2xx request.
C12_AlwaysAResult ==
    ad.pc = "done" =>
        /\ ~ad.raised
        /\ ad.result # None
        /\ ad.result[1].success \in BOOLEAN
        /\ ad.result[1].success <=>
             (ad.attempts # <<>> /\ Last(ad.attempts) \in {"2xx", "2xx_empty"})

C12_Witness ==
    /\ ad.pc = "done"
    /\ ad.entry = "call_api"
    /\ ad.attempts # <<>> /\ Last(ad.attempts) = "connect_error"
    /\ ad.result # None /\ ~ad.result[1].success
    /\ \E i \in 1..Len(ad.log) : ad.log[i].error_type = "adapter_error"

\* C13: an attempt that failed transiently (timeout or connection error) is
\* followed by another attempt unless it was the third, so a finished call whose
\* last attempt failed transiently has made MaxAttempts attempts.
C13_TransientIsRetried ==
    (ad.pc = "done" /\ ad.attempts # <<>>
       /\ Last(ad.attempts) \in {"timeout", "connect_error"}) =>
        Len(ad.attempts) = MaxAttempts

\* C14: a turn that has responded after its external action call timed out or
\* could not reach the endpoint has an error event in the analytics table
\* (the analytics store itself working).
C14_ActionFailureIsLogged ==
    \A t \in Tasks :
        (/\ rq[t].pc = "done"
         /\ faults = 0
         /\ rq[t].api # None
         /\ rq[t].api[1].error_type \in {"timeout", "unknown"}) =>
            [event_type |-> "error", turn |-> rq[t].turn] \in events

\* the analytics rows a turn's log calls would have inserted so far
Wanted(r) ==
    {[event_type |-> CASE r.trace[i] = "log_moderation" -> "moderation"
                       [] r.trace[i] = "log_api_call" -> "api_call"
                       [] r.trace[i] = "log_request" -> "request"
                       [] r.trace[i] = "log_response" -> "response"
                       [] OTHER -> "error",
      turn |-> r.turn] :
        i \in {j \in 1..Len(r.trace) :
                 r.trace[j] \in {"log_moderation", "log_api_call", "log_request",
                                 "log_response", "log_error"}}}

\* C18: whether or not the analytics store failed during a log call, the call
\* returns and the turn goes on as it would have: the handler runs only when
\* generation raised, and a finished turn returns the blocked, rejected, reply or
\* fallback result that its moderation, validation and generation outcomes decide.
C18_AnalyticsNeverDecides ==
    \A t \in Tasks :
        /\ rq[t].pc \in {"handler", "raised"} =>
             (rq[t].llm = None /\ Steps(t, {"generate"}) = 1)
        /\ rq[t].pc = "done" =>
             rq[t].result = IF ~rq[t].is_safe THEN Blocked(rq[t])
                            ELSE IF HasError(rq[t].violations)
                            THEN Rejected(rq[t], rq[t].violations)
                            ELSE IF rq[t].llm # None THEN Reply(rq[t])
                            ELSE Fallback(rq[t])

C18_Witness ==
    \E t \in Tasks :
        /\ rq[t].pc = "done"
        /\ rq[t].result.kind = "reply"
        /\ rq[t].api # None
        /\ \E e \in Wanted(rq[t]) : e \notin events

DisabledTurn(t) ==
    rq[t].bound /\ rq[t].domain \in Domains /\ ~RetrievalEnabled(rq[t].domain)

\* C15 as stated: every finished turn in a domain with retrieval disabled made no
\* vector search and carries retrieved_context_count = 0 in its metadata.
C15_DisabledCountIsZero ==
    \A t \in Tasks :
        DisabledTurn(t) =>
            /\ Steps(t, {"search"}) = 0
            /\ rq[t].pc = "done" => rq[t].result.retrieved_context_count = Some(0)

\* C15 amended: a turn in a domain with retrieval disabled makes no vector search;
\* when it returns the generated reply its metadata carries
\* retrieved_context_count = 0, and its rejection and fallback responses carry no
\* count.
C15_DisabledNoSearch ==
    \A t \in Tasks :
        DisabledTurn(t) =>
            /\ Steps(t, {"search"}) = 0
            /\ rq[t].pc = "done" =>
                 rq[t].result.retrieved_context_count =
                     IF rq[t].result.kind = "reply" THEN Some(0) ELSE None

C15_Witness ==
    \E t \in Tasks :
        /\ DisabledTurn(t)
        /\ rq[t].pc = "done"
        /\ rq[t].result.kind = "reply"
        /\ rq[t].result.retrieved_context_count = Some(0)

\* C16: after the first turn, issued without a session id and answered with the
\* generated reply while every store write succeeded, the response carries the id
\* of the session the turn created and that session's message_count is 1.
C16_FirstTurnCountsOne ==
    \A t \in Tasks :
        (/\ rq[t].pc = "done"
         /\ rq[t].turn = 1
         /\ ~rq[t].supplied
         /\ rq[t].result.kind = "reply"
         /\ faults = 0) =>
            /\ rq[t].result.session_id = Some(nextSid)
            /\ nextSid \in DOMAIN store
            /\ store[nextSid].message_count = 1

Min(a, b) == IF a < b THEN a ELSE b

\* C17: get_history(session_id, limit) on a stored session returns the last
\* min(limit, length of history) messages in stored order, for every limit >= 0,
\* so the result is never longer than limit.
C17_HistoryWithinLimit ==
    (gh # <<>> /\ gh[1].session # None) =>
        LET h == gh[1].session[1].history
            n == Min(gh[1].limit, Len(h))
        IN /\ gh[1].result = SubSeq(h, Len(h) - n + 1, Len(h))
           /\ Len(gh[1].result) <= gh[1].limit

\* the api key a header carries when it has the form "Bearer <api_key>"
BearerKey(authorization) ==
    IF authorization # None /\ Len(split(authorization[1])) = 2
         /\ lower(split(authorization[1])[1]) = "bearer"
    THEN Some(split(authorization[1])[2]) ELSE None

ActiveTenant(api_key) ==
    IF TenantOfKey(api_key) # None /\ TenantOfKey(api_key)[1].is_active
    THEN Some(TenantOfKey(api_key)[1].tenant_id) ELSE None

\* C20: a request to the text, voice or domain-list route whose Authorization
\* header is missing, is not "Bearer <api_key>", or carries a key of no active
\* tenant is answered 401 without the route body (and the Orchestrator) running;
\* whenever the body runs, its tenant_id is the tenant the key resolves to.
C20_OnlyActiveTenantsPass ==
    gw # <<>> =>
        LET r == gw[1]
            key == BearerKey(r.authorization)
        IN /\ (key = None \/ ActiveTenant(key[1]) = None) =>
                 (r.status = 401 /\ ~r.invoked)
           /\ r.invoked =>
                 (key # None /\ r.tenant_id # None /\ r.tenant_id = ActiveTenant(key[1]))
           /\ r.status \in {200, 401}

C20_Witness ==
    /\ gw # <<>>
    /\ gw[1].authorization = Some(<<"Bearer", " ", "k3">>)
    /\ gw[1].db_ok
    /\ gw[1].status = 401
    /\ ~gw[1].invoked

\* C19: a finished voice request has been answered with a well-formed response
\* whose text_response is populated, never with a 5xx status, also when
\* transcription, the text pipeline or speech synthesis failed.
C19_VoiceAlwaysAnswers ==
    vo.pc = "done" =>
        /\ vo.status = 200
        /\ vo.body # None
        /\ vo.body[1].text_response # Text("none", 0)

\* ---------------------------------------------------------------- Config Store
\* the definition files of a stem that are in the directory
FilesOf(stem) == {suffix \in Suffixes : <<stem, suffix>> \in DOMAIN cfgdir}

\* C21: load(domain) returns false and stores nothing for every definition
\* that lacks domain_name, has an empty intents list, has two intents of the
\* same name, has a top_k that is not a positive integer, or has a
\* score_threshold outside [0,1].
C21_InvalidIsRejected ==
    (/\ cf.op = "load"
     /\ cf.read # None
     /\ validate_domain_config(cf.read[1]) # {})
    => (~cf.ret /\ configs = cf.before)

\* C22: after load_all over a directory of valid and invalid definition files,
\* every domain with a valid definition is loaded and get returns its
\* configuration, no domain whose definitions are all invalid was stored by the
\* pass, and the count returned is the number of domains the pass loaded.
C22_LoadAllPartialSuccess ==
    cf.op = "load_all" =>
        /\ \A stem \in Stems :
             /\ (\E suffix \in FilesOf(stem) :
                   validate_domain_config(cfgdir[<<stem, suffix>>]) = {})
                => (/\ stem \in DOMAIN configs
                    /\ \E suffix \in FilesOf(stem) :
                         DomainConfig(cfgdir[<<stem, suffix>>]) = Some(configs[stem])
                    /\ get_config(configs, cfgdir, stem).ret = Some(configs[stem]))
             /\ (/\ FilesOf(stem) # {}
                 /\ \A suffix \in FilesOf(stem) :
                      validate_domain_config(cfgdir[<<stem, suffix>>]) # {})
                => (/\ stem \in DOMAIN configs => stem \in DOMAIN cf.before
                    /\ stem \in DOMAIN cf.before => configs[stem] = cf.before[stem])
        /\ cf.count = Cardinality({stem \in Stems :
                                     /\ stem \in DOMAIN configs
                                     /\ \E suffix \in FilesOf(stem) :
                                          DomainConfig(cfgdir[<<stem, suffix>>])
                                              = Some(configs[stem])})

\* C23: save_config(d, c, format) in any of the formats json, yaml, yml,
\* whatever the directory held before, followed by a reload of d, succeeds and
\* yields a configuration with the intents, response templates and retrieval
\* settings of c.
C23_SaveReloadRoundTrip ==
    [][(/\ cf.op = "save"
        /\ cf.ret
        /\ cf'.op = "reload"
        /\ cf'.domain_name = cf.domain_name)
       => (/\ cf'.ret
           /\ cf.domain_name \in DOMAIN configs'
           /\ configs'[cf.domain_name].intents = cf.config[1].intents
           /\ configs'[cf.domain_name].response_templates = cf.config[1].response_templates
           /\ configs'[cf.domain_name].context_retrieval
                  = cf.config[1].context_retrieval)]_vars

\* C24: no two loaded configurations have the same domain_name, and each is
\* stored under, and retrieved by, its own domain_name.
C24_KeyedByDomainName ==
    /\ \A key \in DOMAIN configs : configs[key].domain_name = key
    /\ \A k1, k2 \in DOMAIN configs :
         configs[k1].domain_name = configs[k2].domain_name => k1 = k2

\* ----------------------------------------------------------------- batch_call
\* C25: batch_call over n requests has every call running before it waits for
\* any, and returns n results in the order of the requests: result i is a
\* failure result when the call for request i raised, and in every case what
\* that call yields when it is run alone.
C25_BatchIsolation ==
    /\ bt.pc = "gathering" => Len(bt.outcomes) = Len(bt.requests)
    /\ bt.pc = "returned" =>
         /\ Len(bt.ret[1]) = Len(bt.requests)
         /\ \A i \in 1..Len(bt.requests) :
              IF Raises(bt.requests[i])
              THEN bt.ret[1][i] = FailureResult(Exception(bt.requests[i]))
              ELSE bt.ret[1][i] = call_api_body(bt.requests[i]).result

\* a batch of three whose second call raised and finished first
C25_Witness ==
    /\ bt.pc = "returned"
    /\ Len(bt.requests) = 3
    /\ Raises(bt.requests[2])
    /\ bt.requests[1] = "2xx"
    /\ bt.requests[3] = "timeout"
    /\ bt.order = <<2, 3, 1>>

\* ---------------------------------------------------------------- health check
\* C26: every health report names each of the eight capabilities with the
\* result of its own check, its overall is true exactly when all eight are
\* true, and a query that finds the capabilities as the query before it found
\* them returns the same overall status.
C26_HealthIsConjunction ==
    [][hc'.last # None =>
         LET new == hc'.last[1] IN
         /\ Capabilities \subseteq DOMAIN new.response.services
         /\ \A c \in Capabilities : new.response.services[c] = new.seen[c]
         /\ new.response.services["overall"] = (\A c \in Capabilities : new.seen[c])
         /\ (new.response.status = "healthy") = new.response.services["overall"]
         /\ (hc.last # None /\ hc.last[1].seen = new.seen)
            => /\ new.response.status = hc.last[1].response.status
               /\ new.response.services["overall"]
                      = hc.last[1].response.services["overall"]]_vars

\* a degraded report: only the vector store is down
C26_Witness ==
    /\ hc.last # None
    /\ hc.last[1].seen = [c \in Capabilities |-> c # "qdrant"]
    /\ hc.last[1].response.status = "degraded"
    /\ hc.up = hc.last[1].seen

\* ------------------------------------------------------------ session races
\* C27: nothing orders two interleaved add_message calls on one session: every
\* call whose write completes returns true, and a completed write replaces the
\* stored record by the record that call built from its own earlier reads, so
\* the record left by the later write is all that remains.
C27_LastWriteWins ==
    [][\A t \in Tasks :
         (am[t].pc = "upd_set" /\ am'[t].pc = "ret") =>
             /\ am'[t].ret = TRUE
             /\ am'[t].saved => store'[am[t].sid] = am[t].merged[1]]_vars

\* both calls on the fresh session returned true and wrote, yet one message and
\* a message_count of 1 are stored
C27_Witness ==
    /\ \A t \in Tasks : am[t].pc = "ret" /\ am[t].ret /\ am[t].saved /\ am[t].sid = 1
    /\ am[1].msg # am[2].msg
    /\ 1 \in DOMAIN store
    /\ Len(store[1].history) = 1
    /\ store[1].message_count = 1

\* C28: once delete_session(session_id) has returned true, the session has no
\* record in any later state, so get_session returns None, also when an
\* add_message had read the record before the delete and writes after it.
C28_DeletedStaysDeleted ==
    \A sid \in deleted : redis_get(sid, TRUE) = None

C30_FallbackText ==
    \A t \in Tasks :
        (rq[t].pc \in {"done", "raised"} /\ Has(rq[t].trace, "log_error")) =>
            /\ rq[t].result.kind = "fallback"
            /\ rq[t].result.text_response =
                   IF rq[t].bound /\ rq[t].domain \in Domains
                   THEN Text("domain_fallback", 0)
                   ELSE Text("generic_error", 0)

\* ------------------------------------------------------------- rate counters
\* C31: no step decreases or resets a tenant's request counter, and once a
\* validate_plan call of a tenant has returned a rate_limit violation every
\* later call for that tenant returns one too.
C31_CounterNeverResets ==
    [][\A tn \in Tenants :
         /\ request_counts'[tn] >= request_counts[tn]
         /\ (Len(rl'[tn]) > Len(rl[tn]) /\ Has(rl[tn], FALSE)) => ~Last(rl'[tn])]_vars

\* t1 was limited twice in a row while t2, counted apart, still passed
C31_Witness ==
    /\ rl["t1"] = <<TRUE, FALSE, FALSE>>
    /\ rl["t2"] = <<TRUE>>
    /\ request_counts["t1"] = RateLimitPerMinute

\* ------------------------------------------------------------ moderation fails
ModerationFailed(r) ==
    r.moderation # None /\ r.moderation[1].message = "Moderation check failed, content allowed"

\* C32: when the classifier raised while moderating a turn's text, the
\* moderation result is is_safe = true with no flagged category, and the turn
\* goes on to intent parsing: it is neither blocked nor answered with the
\* fallback because of it.
C32_ModerationFailsOpen ==
    [][\A t \in Tasks :
         (rq[t].pc = "moderate" /\ rq'[t].pc # "moderate" /\ ModerationFailed(rq'[t])) =>
             /\ rq'[t].is_safe
             /\ rq'[t].moderation[1].flagged_categories = {}
             /\ rq'[t].pc = "nlu"
             /\ rq'[t].result.kind = "none"]_vars

\* a turn whose moderation failed and that was answered with the generated reply
C32_Witness ==
    \E t \in Tasks :
        /\ ModerationFailed(rq[t])
        /\ rq[t].pc = "done"
        /\ rq[t].result.kind = "reply"
        /\ Steps(t, {"nlu"}) = 1

\* ------------------------------------------------------- action outcome forward
\* C33: in a turn that executed its external action and built its generation
\* prompt, the prompt carries the outcome of the action: the returned data when
\* the call succeeded, a description of the failure when it failed.
C33_OutcomeReachesGeneration ==
    \A t \in Tasks :
        (rq[t].api # None /\ rq[t].branch # "none") =>
            IF rq[t].api[1].success
            THEN "api_response.data" \in PromptParts(rq[t].branch)
            ELSE \E part \in PromptParts(rq[t].branch) :
                   part \in {"api_response.error", "api_response.error_type",
                             "api_response.status_code"}

\* ------------------------------------------------------------ plan and action
\* the domain configuration declares an api_endpoint for the intent
DeclaresEndpoint(domain, intent) ==
    /\ domain \in Domains
    /\ intent # None
    /\ intent[1] \in ConfiguredIntents(domain)
    /\ get_intent_config(domain, intent)[1].api_endpoint

\* C34: the plan built in a turn has requires_api_call = true, and then
\* exactly one action, of type api_call, if and only if the domain
\* configuration declares an api_endpoint for the detected intent; the Data
\* Adapter is called at most once in a turn, and only after a validation that
\* passed on a plan with requires_api_call = true.
C34_PlanFollowsConfig ==
    \A t \in Tasks :
        /\ Has(rq[t].trace, "validate") =>
             /\ rq[t].plan.requires_api_call
                    <=> DeclaresEndpoint(rq[t].domain, rq[t].intent)
             /\ IF rq[t].plan.requires_api_call
                THEN /\ Len(rq[t].plan.actions) = 1
                     /\ rq[t].plan.actions[1].type = "api_call"
                ELSE rq[t].plan.actions = <<>>
        /\ Steps(t, {"call_api"}) <= 1
        /\ Steps(t, {"call_api"}) = 1 =>
             /\ Has(rq[t].trace, "validate")
             /\ rq[t].plan.requires_api_call
             /\ IsValid(rq[t].violations)

\* one turn that called the adapter, and one whose plan asked for the call but
\* was rejected before it
C34_Witness ==
    \E t \in Tasks :
        /\ rq[t].pc = "done"
        /\ rq[t].result.kind = "rejected"
        /\ rq[t].plan.requires_api_call
        /\ Steps(t, {"call_api"}) = 0
        /\ [event_type |-> "api_call", turn |-> 1] \in events

\* --------------------------------------------------------- session lifetime
\* the call or idle period that this step completes
Completes(op) == ss'.last.n = ss.last.n + 1 /\ ss'.last.op = op

\* C35: every successful create_session, add_message and update_context
\* leaves the session record with a remaining time-to-live of the Session
\* Manager's default TTL, and a session without any update for that long is
\* absent afterwards.
C35_TtlIsSessionDefault ==
    [][/\ (Completes("create_session") /\ ss'.last.sid \in DOMAIN store')
          => ss'.remaining[ss'.last.sid] = DefaultTtl
       /\ (Completes("update_context") /\ ss'.last.ret)
          => ss'.remaining[ss'.last.sid] = DefaultTtl
       /\ (am[1].pc = "upd_set" /\ am'[1].pc = "ret" /\ am'[1].saved)
          => ss'.remaining[am[1].sid] = DefaultTtl
       /\ Completes("idle") => \A sid \in DOMAIN store : sid \notin DOMAIN store']_vars

\* C37: update_session, update_context and extend_session on a session_id
\* without a record, and add_message when its read finds none, leave the store
\* without a record for that id and do not report success.
C37_OnlyCreateCreates ==
    [][/\ \A op \in {"update_session", "update_context", "extend_session"} :
            (Completes(op) /\ ~ss'.last.existed)
            => (~ss'.last.ret /\ ss'.last.sid \notin DOMAIN store')
       /\ (am[1].pc = "get" /\ am'[1].pc # "get" /\ am[1].sid \notin DOMAIN store)
          => (am'[1].pc = "ret" /\ ~am'[1].ret /\ am[1].sid \notin DOMAIN store')]_vars

\* C38: with one writer per session, a stored session's message_count is the
\* number of add_message calls on it that returned true; it is at least the
\* length of the history, and equal to it as long as nothing was evicted.
C38_CountIsAcknowledged ==
    \A sid \in DOMAIN store :
        /\ sid \in DOMAIN ss.acks
        /\ store[sid].message_count = ss.acks[sid]
        /\ store[sid].message_count >= Len(store[sid].history)
        /\ store[sid].message_count <= MaxHistory
           => store[sid].message_count = Len(store[sid].history)

\* ------------------------------------------------- blocked and rejected turns
EndedWithoutReply(r) == r.pc = "done" /\ r.result.kind \in {"blocked", "rejected"}

\* C36 as stated: a turn that ended moderation-blocked or plan-rejected left
\* the Session Store and the durable message store exactly as it found them.
C36_StoresUntouched ==
    \A t \in Tasks :
        EndedWithoutReply(rq[t]) =>
            /\ store = rq[t].before.store
            /\ durable = rq[t].before.durable

\* C36, amended: such a turn appended no message, changed no message_count and
\* no stored record, and left the durable message store as it was; the one
\* record it can have added is the empty session it created because no
\* session_id was supplied.
C36_NoMessageStored ==
    \A t \in Tasks :
        EndedWithoutReply(rq[t]) =>
            /\ durable = rq[t].before.durable
            /\ \A sid \in DOMAIN rq[t].before.store :
                 sid \in DOMAIN store /\ store[sid] = rq[t].before.store[sid]
            /\ \A sid \in DOMAIN store \ DOMAIN rq[t].before.store :
                 /\ ~rq[t].supplied
                 /\ sid = rq[t].sid
                 /\ store[sid].tenant_id = rq[t].tenant
                 /\ store[sid].history = <<>>
                 /\ store[sid].message_count = 0

\* a rejected turn that had created its session, after a turn that stored
\* messages
C36_Witness ==
    \E t \in Tasks :
        /\ EndedWithoutReply(rq[t])
        /\ rq[t].result.kind = "rejected"
        /\ rq[t].sid \in DOMAIN store \ DOMAIN rq[t].before.store
        /\ \E sid \in DOMAIN rq[t].before.store : Len(store[sid].history) = 2

\* ------------------------------------------------------------- failed loads
\* C39: a load or reload of a domain whose definition file is missing,
\* unreadable or invalid returns false and leaves the loaded set as it was, so
\* get still returns the configuration loaded before, and no other domain
\* changes.
C39_FailedLoadChangesNothing ==
    (/\ cf.op \in {"load", "reload"}
     /\ \/ cf.read = None
        \/ validate_domain_config(cf.read[1]) # {})
    => (/\ ~cf.ret
        /\ configs = cf.before
        /\ cf.domain_name \in DOMAIN cf.before
           => get_config(configs, cfgdir, cf.domain_name).ret
                  = Some(cf.before[cf.domain_name]))

====
